---- MODULE Spec2Model ----
(***************************************************************************)
(* A model of python-assembling: the basic-block assembler/disassembler    *)
(* (basic_assembler.py), the backtracking pattern engine                   *)
(* (general_searching.py) and the instruction adapter                      *)
(* (instruction_pattern.py).                                               *)
(*                                                                         *)
(* Python's None is the string "None" where a value is a string and the    *)
(* number NoneInt where it is a number.  Instruction indexes and unit      *)
(* positions are 0-based as in the source; TLA+ sequences are 1-based, so  *)
(* the instruction at index j is ins[j + 1].                               *)
(***************************************************************************)
EXTENDS Integers, Sequences, FiniteSets, TLC

VARIABLES
    \* ---- assembler (basic_assembler.py) ----
    code,            \* the encoded stream handed to disassemble: units [opcode, arg, starts_line]
    co_consts,       \* CodeInfo.co_consts: sequence of [val, type]
    blocks,          \* FunctionBlock.blocks: id -> BasicBlock
    order,           \* insertion order of the blocks dict (sequence of ids)
    entry,           \* FunctionBlock.entry
    apc,             \* position of nop()/assemble(): "code", "graph", "loop", "done", "error"
    ins,             \* assemble's ins (from get_instructions)
    jumps,           \* assemble's jumps: instruction index -> target instruction index
    line_starts,     \* assemble's line_starts: instruction index -> line
    line_offsets,    \* assemble's line_offsets: byte offset -> line
    actual_targets,  \* assemble's actual_targets: target instruction index -> unit position
    old_hash,        \* assemble's old_hash: <<>> for None, else <<map>>
    raw_ins,         \* assemble's raw_ins: units [opcode, arg]
    passes,          \* number of passes of the while loop run so far
    co_code,         \* the bytes assemble built (_to_bytes), <<>> until "done"
    \* ---- pattern engine (general_searching.py, instruction_pattern.py) ----
    pattern,         \* the Pattern a driver holds
    stream,          \* the sequence it is run on: Instructions
    mstart,          \* the start handed to pattern.match or to _match
    driver,          \* the entry point that runs
    mpc,             \* its position: "call", "iter" (in its for loop), "done"
    gen,             \* the generator pattern.match returned: a frame
    captures,        \* the Captures of the run
    best,            \* MatcherLongest._match's best
    returned,        \* what the driver returned or raised
    emitted,         \* history: what the for loop got, with captures.to_dict() then
    \* ---- search, findall (general_searching.py), find_pattern (instruction_pattern.py) ----
    matcher,         \* the class of the matcher: "first" (MatcherFirst) or "longest"
    overlapping,     \* findall's overlapping
    fblocks,         \* the streams: the one handed to search or findall, or the
                     \* instructions of the blocks of find_pattern's graph, in mapping order
    fidx,            \* the block find_pattern is in (1 for search and findall)
    scan,            \* start of search and of findall
    found,           \* history: what findall yielded, and what the callback returned
    fun,             \* what was called: "search", "findall" or "find_pattern"
    fpc,             \* its position: "loop", "done"
    fret,            \* what search returned; how findall or find_pattern ended
    \* ---- a Captures object under its caller's calls (general_searching.py) ----
    store,           \* the Captures
    opened,          \* history: for every enter() not undone by a successful exit, the
                     \* key it returned and to_dict() before it, oldest first
    lastop,          \* history: the last call and how it ended
    \* ---- a table of CodeInfo under make_sure (basic_assembler.py) ----
    table,           \* co_consts, or another of the tables
    lastcall,        \* history: the last call, the table before it and what it returned
    \* ---- FunctionBlock.as_basic_blocks called alone ----
    linear,          \* what it returned or that it raised
    \* ---- _to_linetab (basic_assembler.py) ----
    linetab          \* its arguments and what it returned or that it raised

asmVars == <<code, co_consts, blocks, order, entry, apc, ins, jumps, line_starts,
             line_offsets, actual_targets, old_hash, raw_ins, passes, co_code>>

matchVars ==
    <<pattern, stream, mstart, driver, mpc, gen, captures, best, returned, emitted>>

findVars == <<fun, matcher, overlapping, fblocks, fidx, scan, found, fpc, fret>>

storeVars == <<store, opened, lastop>>

tableVars == <<table, lastcall>>

libVars == <<findVars, storeVars, tableVars, linear, linetab>>

vars == <<asmVars, matchVars, libVars>>

-----------------------------------------------------------------------------
(* Bounds of the model *)

\* the largest block id of a hand-built graph; labels may also name MaxBlock + 1,
\* an id no block has
MaxBlock == 2
\* the most Labels (jump operands and fallthroughs) of a hand-built graph
MaxLabels == 2
\* the longest run of argument-less instructions in a block of a hand-built graph
LongPad == 254
\* passes of assemble's while loop the model follows
MaxPasses == 6
\* the longest stream handed to nop, in units
MaxCode == 3
\* the largest operand byte of a unit of such a stream
MaxArg == 2
\* the longest stream handed to a matcher
MaxLen == 4
\* the largest start handed to pattern.match and to _match
MaxStart == 1
\* the largest min, the largest max and the largest step of a Repeat
MaxMin == 2
MaxMax == 3
MaxStep == 2

-----------------------------------------------------------------------------
(* Values *)

NoneInt == -1

Repl(x, n) == [k \in 1..n |-> x]

Min(S) == CHOOSE x \in S : \A y \in S : x <= y
Max(S) == CHOOSE x \in S : \A y \in S : x >= y

Drop(f, k) == [x \in (DOMAIN f) \ {k} |-> f[x]]
Put(f, k, v) == [x \in (DOMAIN f) \cup {k} |-> IF x = k THEN v ELSE f[x]]
EmptyMap == [x \in {} |-> 0]

\* F applied to the value of x, which is computed once
Bind(x, F(_)) == CHOOSE r \in {F(y) : y \in {x}} : TRUE

\* The opcode tables of dis (Python 3.10), restricted to the opcodes of the model.
NoArgOps == {"NOP", "POP_TOP", "RETURN_VALUE"}
hasjrel == {"FOR_ITER", "JUMP_FORWARD"}
hasjabs == {"JUMP_ABSOLUTE", "POP_JUMP_IF_FALSE"}
hasconst == {"LOAD_CONST"}
HaveArgument(opcode) == opcode \notin NoArgOps

\* Instruction(opcode, arg): arg is None, an int, a constant or a BasicBlockTarget
ArgNone == [kind |-> "none", val |-> 0, type |-> "none", target_id |-> 0, offset |-> 0]
ArgInt(n) == [kind |-> "int", val |-> n, type |-> "int", target_id |-> 0, offset |-> 0]
ArgConst(v, t) == [kind |-> "const", val |-> v, type |-> t, target_id |-> 0, offset |-> 0]
BasicBlockTarget(t, o) ==
    [kind |-> "label", val |-> 0, type |-> "none", target_id |-> t, offset |-> o]
Instruction(opcode, arg) == [opcode |-> opcode, arg |-> arg]
NoInstruction == Instruction("None", ArgNone)
NoLabel == ArgNone

is_jump(i) == i.opcode \in hasjrel \/ i.opcode \in hasjabs
no_next(i) == i.opcode \in {"RETURN_VALUE", "JUMP_ABSOLUTE", "JUMP_FORWARD"}

BasicBlock(id, instructions, jump_instruction, next_target, line) ==
    [id |-> id, instructions |-> instructions, jump_instruction |-> jump_instruction,
     next_target |-> next_target, line |-> line]

\* dis.Instruction as get_raw builds it: opcode and arg (None for an argument-less opcode)
RawIns(opcode, arg) == [opcode |-> opcode, arg |-> arg]

-----------------------------------------------------------------------------
(* FunctionBlock.as_basic_blocks: the blocks in the order they are laid out. *)
(* A run is a sequence of block ids.  runs_by_start is a map id -> run;       *)
(* runs_by_target is a dict read with popitem (last inserted first), kept as  *)
(* a sequence of [target_id, run] in insertion order.  Every failed assert    *)
(* and every KeyError is the result [ok |-> FALSE].                           *)

TargetKeys(rbt) == {rbt[k].target_id : k \in DOMAIN rbt}
TargetIndex(rbt, t) == CHOOSE k \in DOMAIN rbt : rbt[k].target_id = t

\* a collection in which a second Label for a target replaces the first
RECURSIVE CollectRunsOverwriting(_, _, _, _)
CollectRunsOverwriting(bs, ord, rbs, rbt) ==
    IF ord = <<>> THEN [ok |-> TRUE, runs_by_start |-> rbs, runs_by_target |-> rbt]
    ELSE LET bb == bs[Head(ord)]
             rbs1 == Put(rbs, bb.id, <<bb.id>>)
         IN IF bb.id \in DOMAIN rbs
            THEN [ok |-> FALSE, runs_by_start |-> rbs, runs_by_target |-> rbt]
            ELSE IF bb.next_target = NoLabel
            THEN CollectRunsOverwriting(bs, Tail(ord), rbs1, rbt)
            ELSE IF bb.next_target.kind # "label" \/ bb.next_target.offset # 0
            THEN [ok |-> FALSE, runs_by_start |-> rbs1, runs_by_target |-> rbt]
            ELSE IF bb.next_target.target_id \in TargetKeys(rbt)
            THEN CollectRunsOverwriting(bs, Tail(ord), rbs1,
                     [rbt EXCEPT ![TargetIndex(rbt, bb.next_target.target_id)].run = <<bb.id>>])
            ELSE CollectRunsOverwriting(bs, Tail(ord), rbs1,
                     Append(rbt, [target_id |-> bb.next_target.target_id, run |-> <<bb.id>>]))

\* lines 235-244: one run per block, registered under its fallthrough target
RECURSIVE CollectRuns(_, _, _, _)
CollectRuns(bs, ord, rbs, rbt) ==
    IF ord = <<>> THEN [ok |-> TRUE, runs_by_start |-> rbs, runs_by_target |-> rbt]
    ELSE LET bb == bs[Head(ord)]
             rbs1 == Put(rbs, bb.id, <<bb.id>>)
         IN IF bb.id \in DOMAIN rbs
            THEN [ok |-> FALSE, runs_by_start |-> rbs, runs_by_target |-> rbt]
            ELSE IF bb.next_target = NoLabel
            THEN CollectRuns(bs, Tail(ord), rbs1, rbt)
            ELSE IF \/ bb.next_target.kind # "label"
                    \/ bb.next_target.offset # 0
                    \/ bb.next_target.target_id \in TargetKeys(rbt)
            THEN [ok |-> FALSE, runs_by_start |-> rbs1, runs_by_target |-> rbt]
            ELSE CollectRuns(bs, Tail(ord), rbs1,
                     Append(rbt, [target_id |-> bb.next_target.target_id, run |-> <<bb.id>>]))

\* lines 245-255: splice the run registered last onto the run starting at its target
RECURSIVE SpliceRuns(_, _, _)
SpliceRuns(bs, rbs, rbt) ==
    IF rbt = <<>> THEN [ok |-> TRUE, runs_by_start |-> rbs]
    ELSE LET item == rbt[Len(rbt)]
             rest == SubSeq(rbt, 1, Len(rbt) - 1)
             target_id == item.target_id
             start_run == item.run
             rbs1 == Drop(rbs, start_run[1])
             end_run == rbs1[target_id]
             rbs2 == Drop(rbs1, target_id)
             run == start_run \o end_run
             nt == bs[run[Len(run)]].next_target
             rbs3 == Put(rbs2, run[1], run)
         IN IF \/ target_id \notin DOMAIN rbs
               \/ start_run[1] \notin DOMAIN rbs
               \/ target_id \notin DOMAIN rbs1
            THEN [ok |-> FALSE, runs_by_start |-> rbs]
            ELSE IF nt = NoLabel
            THEN SpliceRuns(bs, rbs3, rest)
            ELSE IF \/ nt.kind # "label"
                    \/ nt.target_id \notin TargetKeys(rest)
            THEN [ok |-> FALSE, runs_by_start |-> rbs]
            ELSE IF rest[TargetIndex(rest, nt.target_id)].run # end_run
            THEN [ok |-> FALSE, runs_by_start |-> rbs]
            ELSE SpliceRuns(bs, rbs3,
                     [rest EXCEPT ![TargetIndex(rest, nt.target_id)].run = run])

\* an order that ends with the run of the entry
ExtendRunsNone(result, rbs) == result

\* lines 257-258: the remaining runs, least first id first
RECURSIVE ExtendRuns(_, _)
ExtendRuns(result, rbs) ==
    IF DOMAIN rbs = {} THEN result
    ELSE ExtendRuns(result \o rbs[Min(DOMAIN rbs)], Drop(rbs, Min(DOMAIN rbs)))

\* an order that starts with the run of the least first id, whatever the entry
as_basic_blocksAscending(bs, ord, ent) ==
    LET c == CollectRuns(bs, ord, EmptyMap, <<>>)
        s == SpliceRuns(bs, c.runs_by_start, c.runs_by_target)
    IN IF ~c.ok THEN [ok |-> FALSE, result |-> <<>>]
       ELSE IF ~s.ok THEN [ok |-> FALSE, result |-> <<>>]
       ELSE [ok |-> TRUE, result |-> ExtendRuns(<<>>, s.runs_by_start)]

as_basic_blocks(bs, ord, ent) ==
    LET c == CollectRuns(bs, ord, EmptyMap, <<>>)
        s == SpliceRuns(bs, c.runs_by_start, c.runs_by_target)
    IN IF ~c.ok THEN [ok |-> FALSE, result |-> <<>>]
       ELSE IF ~s.ok THEN [ok |-> FALSE, result |-> <<>>]
       ELSE IF ent \notin DOMAIN s.runs_by_start THEN [ok |-> FALSE, result |-> <<>>]
       ELSE [ok |-> TRUE,
             result |-> ExtendRuns(s.runs_by_start[ent], Drop(s.runs_by_start, ent))]

-----------------------------------------------------------------------------
(* FunctionBlock.get_instructions *)

\* lines 268-277: the instruction list, the block starts, the line starts and the
\* jumps to fix; lay.last_line is the line of the block before (None at first)
LayOutStart ==
    [ok |-> TRUE, block_starts |-> EmptyMap, line_starts |-> EmptyMap,
     last_line |-> NoneInt, ins |-> <<>>, to_fix |-> <<>>]

\* lines 269-277: one block laid out
LayBlock(b, lay) ==
    LET lay1 == [lay EXCEPT
                    !.block_starts = Put(@, b.id, Len(lay.ins)),
                    !.line_starts = IF b.line # lay.last_line
                                    THEN Put(@, Len(lay.ins), b.line) ELSE @,
                    !.last_line = b.line,
                    !.ins = @ \o b.instructions]
    IN IF b.jump_instruction = NoInstruction THEN lay1
       ELSE IF b.jump_instruction.arg.kind # "label" THEN [lay1 EXCEPT !.ok = FALSE]
       ELSE [lay1 EXCEPT !.ins = Append(@, b.jump_instruction),
                         !.to_fix = Append(@, Len(lay1.ins))]

RECURSIVE LayOut(_, _, _)
LayOut(bs, bbs, lay) ==
    IF bbs = <<>> \/ ~lay.ok THEN lay
    ELSE Bind(LayBlock(bs[Head(bbs)], lay), LAMBDA l : LayOut(bs, Tail(bbs), l))

\* line 281: the target instruction index of the jump at index i
JumpTarget(block_starts, l) == block_starts[l.target_id] + l.offset

\* the result of get_instructions when an exception ends it
GetFailed == [ok |-> FALSE, jumps |-> EmptyMap, line_starts |-> EmptyMap, ins |-> <<>>]

\* lines 278-282 with a lookup that falls back to position 0 for a block id the
\* graph does not hold (block_starts.get(l.target_id, 0) at line 281)
ResolveLenient(lay) ==
    LET fix == {lay.to_fix[k] : k \in DOMAIN lay.to_fix}
        at(l) == IF l.target_id \in DOMAIN lay.block_starts
                 THEN lay.block_starts[l.target_id] ELSE 0
    IN IF ~lay.ok THEN GetFailed
       ELSE [ok |-> TRUE,
             jumps |-> [i \in fix |-> at(lay.ins[i + 1].arg) + lay.ins[i + 1].arg.offset],
             line_starts |-> lay.line_starts,
             ins |-> lay.ins]

\* lines 278-282: the jumps resolved against the block starts; a Label of a block
\* that was not laid out is a KeyError
Resolve(lay) ==
    LET fix == {lay.to_fix[k] : k \in DOMAIN lay.to_fix}
    IN IF ~lay.ok THEN GetFailed
       ELSE IF \E i \in fix : lay.ins[i + 1].arg.target_id \notin DOMAIN lay.block_starts
       THEN GetFailed
       ELSE [ok |-> TRUE,
             jumps |-> [i \in fix |-> JumpTarget(lay.block_starts, lay.ins[i + 1].arg)],
             line_starts |-> lay.line_starts,
             ins |-> lay.ins]

\* lines 261-282
get_instructions(bs, ord, ent) ==
    Bind(as_basic_blocks(bs, ord, ent),
         LAMBDA bbs : IF ~bbs.ok THEN GetFailed
                      ELSE Bind(LayOut(bs, bbs.result, LayOutStart), Resolve))

-----------------------------------------------------------------------------
(* Instruction.get_raw and the passes of FunctionBlock.assemble *)

\* the largest value one encoding unit holds (0xFF)
UnitMax == 255

\* _strict_index: the first entry equal in value and type, else the first entry
\* equal in value (list.index); 0 when there is none (a ValueError)
IndexSet(l, v, strict) ==
    {k \in DOMAIN l : l[k].val = v.val /\ (strict => l[k].type = v.type)}
_strict_index(l, v) ==
    IF IndexSet(l, v, TRUE) # {} THEN Min(IndexSet(l, v, TRUE))
    ELSE IF IndexSet(l, v, FALSE) # {} THEN Min(IndexSet(l, v, FALSE))
    ELSE 0

\* a split that takes two units for a small operand and one for a large one
ArgUnitsInverted(arg_i) ==
    IF arg_i > UnitMax THEN <<arg_i % (UnitMax + 1)>> ELSE <<0, arg_i>>

\* lines 71-76: the operand split into units, most significant first
RECURSIVE ArgUnits(_)
ArgUnits(arg_i) ==
    IF arg_i > UnitMax
    THEN Append(ArgUnits(arg_i \div (UnitMax + 1)), arg_i % (UnitMax + 1))
    ELSE <<arg_i>>

\* lines 63-64: the operand of a relative jump at instruction index o to unit position j
RelativeArg(o, j) == j - o - 1

\* lines 53-69: the operand as a number; [ok |-> FALSE] for a failed lookup, a
\* jump to a Label whose target position is None, or an operand that is no int
ArgIndex(i, consts, o, j) ==
    IF i.opcode \in hasconst
    THEN [ok |-> i.arg.kind = "const" /\ _strict_index(consts, i.arg) # 0,
          arg_i |-> _strict_index(consts, i.arg) - 1]
    ELSE IF i.opcode \in hasjrel /\ i.arg.kind = "label"
    THEN [ok |-> j # NoneInt, arg_i |-> RelativeArg(o, j)]
    ELSE IF i.opcode \in hasjabs /\ i.arg.kind = "label"
    THEN [ok |-> j # NoneInt, arg_i |-> j]
    ELSE [ok |-> i.arg.kind = "int", arg_i |-> i.arg.val]

\* lines 49-79: the units of one instruction, EXTENDED_ARG prefixes first
get_raw(i, consts, o, j) ==
    IF ~HaveArgument(i.opcode)
    THEN [ok |-> TRUE, units |-> <<RawIns(i.opcode, NoneInt)>>]
    ELSE LET a == ArgIndex(i, consts, o, j)
             vs == ArgUnits(a.arg_i)
         IN IF ~a.ok \/ a.arg_i < 0 THEN [ok |-> FALSE, units |-> <<>>]
            ELSE [ok |-> TRUE,
                  units |-> [k \in 1..Len(vs) |->
                                IF k < Len(vs) THEN RawIns("EXTENDED_ARG", vs[k])
                                ELSE RawIns(i.opcode, vs[k])]]

\* dict.get(key, None) on a map to numbers
GetOrNone(f, k) == IF k \in DOMAIN f THEN f[k] ELSE NoneInt

\* lines 295-301: the body of the for loop at instruction index j; st holds the
\* targets, the line offsets and the units so far, and ok = FALSE once get_raw has
\* failed
PassStep(instrs, consts, jmps, lines, j, st) ==
    IF ~st.ok THEN st
    ELSE LET targets1 == IF j \in DOMAIN st.actual_targets
                         THEN [st.actual_targets EXCEPT ![j] = Len(st.raw_ins)]
                         ELSE st.actual_targets
             offsets1 == IF j \in DOMAIN lines
                         THEN Put(st.line_offsets, Len(st.raw_ins) * 2, lines[j])
                         ELSE st.line_offsets
             o == GetOrNone(targets1, GetOrNone(jmps, j))
             r == get_raw(instrs[j + 1], consts, j, o)
         IN [ok |-> r.ok, actual_targets |-> targets1, line_offsets |-> offsets1,
             raw_ins |-> st.raw_ins \o r.units]

\* line 294: the for loop over the instruction indexes lo .. hi - 1, in order (the
\* range is halved, and the state after the first half is a value before the
\* second half starts, so that the evaluation does not nest once per instruction)
RECURSIVE PassRange(_, _, _, _, _, _, _)
PassRange(instrs, consts, jmps, lines, lo, hi, st) ==
    IF lo >= hi THEN st
    ELSE IF hi = lo + 1 THEN PassStep(instrs, consts, jmps, lines, lo, st)
    ELSE CHOOSE r \in
            {PassRange(instrs, consts, jmps, lines, (lo + hi) \div 2, hi, left) :
                left \in {PassRange(instrs, consts, jmps, lines, lo, (lo + hi) \div 2, st)}} :
            TRUE

\* lines 292-301: one pass over all instructions
PassFrom(instrs, consts, jmps, lines, targets) ==
    PassRange(instrs, consts, jmps, lines, 0, Len(instrs),
              [ok |-> TRUE, actual_targets |-> targets, line_offsets |-> EmptyMap,
               raw_ins |-> <<>>])

\* line 286
InitialTargets(jmps) == [o \in {jmps[i] : i \in DOMAIN jmps} |-> o]

\* a hash that also depends on the pass it is taken in (as the hash of an object
\* built anew in every pass would)
HashStale(targets) == <<targets, passes>>

\* line 291: the hash of the target map remembered for the loop test (the hash is
\* taken to be injective on the maps one assembly goes through)
HashOf(targets) == <<targets>>

\* _to_linetab, lines 204-209: the first recorded pair must hold a line, and so
\* must every pair after it (the arithmetic on None is a TypeError)
LinetabOk(offsets) ==
    DOMAIN offsets # {} /\ \A o \in DOMAIN offsets : offsets[o] # NoneInt

\* the largest line delta one entry holds (line 214)
UnitHalf == 127

\* lines 214-216: the entries (0, 127 * ddl) while dl > 127; bytearray.extend
\* raises ValueError for the value -127
RECURSIVE LinePrefix(_, _, _)
LinePrefix(dl, ddl, out) ==
    IF dl > UnitHalf
    THEN IF UnitHalf * ddl < 0 THEN [ok |-> FALSE, dl |-> dl, out |-> out]
         ELSE LinePrefix(dl - UnitHalf, ddl, Append(out, <<0, UnitHalf * ddl>>))
    ELSE [ok |-> TRUE, dl |-> dl, out |-> out]

\* lines 219-221: the entries (min(255, do), 0) while do > 0
RECURSIVE ByteSuffix(_, _)
ByteSuffix(do, out) ==
    IF do > 0 THEN ByteSuffix(do - UnitMax, Append(out, <<Min({UnitMax, do}), 0>>))
    ELSE out

\* lines 204-223: the body of the for loop for the item (o, l)
LinetabStep(o, l, st) ==
    IF ~st.ok THEN st
    ELSE IF ~st.started
    THEN [st EXCEPT !.started = TRUE, !.startline = l - 1, !.ll = l, !.lll = l - 1]
    ELSE LET dl == st.ll - st.lll
             do == o - st.lo
             ddl == IF dl < 0 THEN -1 ELSE 1
             pre == LinePrefix(IF dl < 0 THEN -dl ELSE dl, ddl, st.out)
         IN IF ~pre.ok THEN [st EXCEPT !.ok = FALSE]
            ELSE [st EXCEPT
                     !.out = ByteSuffix(do - UnitMax,
                                 Append(pre.out, <<Min({UnitMax, do}),
                                                   (pre.dl * ddl) % (UnitMax + 1)>>)),
                     !.lll = st.ll, !.ll = l, !.lo = o]

\* line 204: the for loop over the sorted items whose offsets are in keys, then
\* over (end, None)
RECURSIVE LinetabLoop(_, _, _, _)
LinetabLoop(offsets, keys, end, st) ==
    IF keys = {} THEN LinetabStep(end, NoneInt, st)
    ELSE Bind(LinetabStep(Min(keys), offsets[Min(keys)], st),
              LAMBDA st1 : LinetabLoop(offsets, keys \ {Min(keys)}, end, st1))

\* lines 198-224: startline and the entries (byte delta, line delta), or ok =
\* FALSE when it raises
_to_linetab(offsets, end) ==
    IF ~LinetabOk(offsets) THEN [ok |-> FALSE, startline |-> 0, out |-> <<>>]
    ELSE Bind(LinetabLoop(offsets, DOMAIN offsets, end,
                          [ok |-> TRUE, started |-> FALSE, startline |-> 0, ll |-> 0,
                           lll |-> 0, lo |-> 0, out |-> <<>>]),
              LAMBDA st : [ok |-> st.ok, startline |-> IF st.ok THEN st.startline ELSE 0,
                           out |-> IF st.ok THEN st.out ELSE <<>>])

\* history: a call of _to_linetab and what came of it
TabCall(offsets, end, r) ==
    [offsets |-> offsets, end |-> end, called |-> TRUE, ok |-> r.ok,
     startline |-> r.startline, out |-> r.out]

\* _to_bytes: per unit the opcode byte and the operand byte (arg or 0)
_to_bytes(raw) ==
    [k \in 1..Len(raw) |->
        <<raw[k].opcode, IF raw[k].arg = NoneInt THEN 0 ELSE raw[k].arg>>]

-----------------------------------------------------------------------------
(* disassemble.  The stream is a sequence of units [opcode, arg, starts_line]:   *)
(* arg is the operand byte, starts_line the line that starts at the unit or      *)
(* None.  RawInstructions is dis.get_instructions of Python 3.10, which the      *)
(* source iterates at line 326: it yields every unit, EXTENDED_ARG units         *)
(* included, each with the operand accumulated over the EXTENDED_ARG units       *)
(* before it; the argval of a jump is the byte offset of its target.             *)

RECURSIVE FullArg(_, _)
FullArg(c, k) ==
    IF ~HaveArgument(c[k].opcode) THEN NoneInt
    ELSE c[k].arg + (IF k > 1 /\ c[k - 1].opcode = "EXTENDED_ARG"
                     THEN FullArg(c, k - 1) * (UnitMax + 1) ELSE 0)

RawOffset(k) == 2 * (k - 1)

RawTarget(c, k) ==
    IF c[k].opcode \in hasjabs THEN FullArg(c, k) * 2
    ELSE RawOffset(k) + 2 + FullArg(c, k) * 2

findlabels(c) == {RawTarget(c, k) : k \in {x \in DOMAIN c : is_jump(c[x])}}

RawArgval(c, consts, k) ==
    IF ~HaveArgument(c[k].opcode) THEN ArgNone
    ELSE IF c[k].opcode \in hasconst
    THEN ArgConst(consts[FullArg(c, k) + 1].val, consts[FullArg(c, k) + 1].type)
    ELSE IF is_jump(c[k]) THEN ArgInt(RawTarget(c, k))
    ELSE ArgInt(FullArg(c, k))

RawInstructions(c, consts) ==
    [k \in DOMAIN c |->
        [opcode |-> c[k].opcode, argval |-> RawArgval(c, consts, k),
         offset |-> RawOffset(k), starts_line |-> c[k].starts_line,
         is_jump_target |-> RawOffset(k) \in findlabels(c)]]

\* lines 317-325: the locals of disassemble before the loop (0 is None for current
\* and last, which name blocks by id)
DisInit ==
    [ok |-> TRUE, block_id |-> 1, blocks |-> EmptyMap, order |-> <<>>, labels |-> EmptyMap,
     current |-> 0, last |-> 0, line |-> NoneInt, current_start |-> NoneInt,
     to_fix |-> <<>>]

\* lines 327-331: a unit that starts a line closes the open block
DisLine(d, raw) ==
    IF raw.starts_line = NoneInt THEN d
    ELSE IF d.current = 0 THEN [d EXCEPT !.line = raw.starts_line]
    ELSE [d EXCEPT !.line = raw.starts_line, !.ok = (d.last = 0),
                   !.last = d.current, !.current = 0]

\* lines 332-340: open a block, the fallthrough target of the block closed before it
DisOpen(d, raw) ==
    IF d.current # 0 THEN d
    ELSE LET b == BasicBlock(d.block_id, <<>>, NoInstruction, NoLabel, d.line)
             linked == IF d.last = 0 THEN d.blocks
                       ELSE [d.blocks EXCEPT
                                ![d.last].next_target = BasicBlockTarget(d.block_id, 0)]
         IN [d EXCEPT !.ok = d.ok /\ (d.last = 0 \/ d.blocks[d.last].next_target = NoLabel),
                      !.blocks = Put(linked, d.block_id, b),
                      !.order = Append(d.order, d.block_id),
                      !.current = d.block_id, !.last = 0,
                      !.current_start = raw.offset, !.block_id = d.block_id + 1]

\* a Label whose offset counts from the start of the code
DisLabelAbsolute(d, raw) ==
    IF ~raw.is_jump_target THEN d
    ELSE [d EXCEPT !.labels = Put(d.labels, raw.offset,
                       BasicBlockTarget(d.current, raw.offset \div 2))]

\* lines 341-342
DisLabel(d, raw) ==
    IF ~raw.is_jump_target THEN d
    ELSE [d EXCEPT !.labels = Put(d.labels, raw.offset,
                       BasicBlockTarget(d.current, (raw.offset - d.current_start) \div 2))]

\* lines 343-351
DisAppend(d, raw) ==
    LET i == Instruction(raw.opcode, raw.argval)
        d1 == IF ~is_jump(i)
              THEN [d EXCEPT !.blocks[d.current].instructions = Append(@, i)]
              ELSE [d EXCEPT !.blocks[d.current].jump_instruction = i,
                             !.to_fix = Append(d.to_fix, d.current),
                             !.last = d.current, !.current = 0]
    IN IF no_next(i) THEN [d1 EXCEPT !.last = 0, !.current = 0] ELSE d1

\* lines 326-351: the loop over the units from the k-th on
RECURSIVE DisLoop(_, _, _)
DisLoop(d, raws, k) ==
    IF k > Len(raws) \/ ~d.ok THEN d
    ELSE DisLoop(DisAppend(DisLabel(DisOpen(DisLine(d, raws[k]), raws[k]), raws[k]), raws[k]),
                 raws, k + 1)

\* lines 352-353: the jumps get their Labels; a target without a Label is a KeyError
DisFix(d) ==
    LET fix == {d.to_fix[k] : k \in DOMAIN d.to_fix}
    IN IF \E b \in fix : d.blocks[b].jump_instruction.arg.val \notin DOMAIN d.labels
       THEN [d EXCEPT !.ok = FALSE]
       ELSE [d EXCEPT !.blocks =
                [b \in DOMAIN d.blocks |->
                    IF b \in fix
                    THEN [d.blocks[b] EXCEPT !.jump_instruction.arg =
                                                d.labels[d.blocks[b].jump_instruction.arg.val]]
                    ELSE d.blocks[b]]]

disassemble(c, consts) ==
    LET d == DisLoop(DisInit, RawInstructions(c, consts), 1)
    IN IF d.ok THEN DisFix(d) ELSE d

-----------------------------------------------------------------------------
(* general_searching.py: values, Captures and the generator frames.          *)
(*                                                                           *)
(* A token of a stream is an Instruction.  What a generator yields is a      *)
(* position, or a tuple around one (Repeat yields the tuple (start, {})):    *)
(* [pos, wrap] is the position pos wrapped in wrap tuples, so wrap = 0 is an *)
(* int.  A captured value is an int, a token, a slice of the stream or None. *)
(* Every exception (TypeError, KeyError, AssertionError) is the outcome      *)
(* "error".                                                                  *)

Pos(n) == [pos |-> n, wrap |-> 0]
Tup(v) == [pos |-> v.pos, wrap |-> v.wrap + 1]

VNone == [kind |-> "none", int |-> 0, toks |-> <<>>]
VInt(n) == [kind |-> "int", int |-> n, toks |-> <<>>]
VTok(t) == [kind |-> "tok", int |-> 0, toks |-> <<t>>]
VSeq(ts) == [kind |-> "seq", int |-> 0, toks |-> ts]

\* ins.arg as a value that can be captured and compared
ArgVal(i) == IF i.arg.kind = "int" THEN VInt(i.arg.val) ELSE VNone

\* dis.stack_effect of Python 3.10 for the opcodes of the model (for a conditional
\* jump, the larger of the two effects)
StackEffectOf(opcode, arg) ==
    CASE opcode \in {"LOAD_FAST", "LOAD_CONST", "LOAD_GLOBAL", "FOR_ITER"} -> 1
      [] opcode \in {"POP_TOP", "RETURN_VALUE", "POP_JUMP_IF_FALSE", "STORE_FAST"} -> -1
      [] opcode = "CALL_FUNCTION" -> 0 - arg
      [] OTHER -> 0

\* Instruction.stack_effect, lines 81-87
stack_effect(i) ==
    IF ~HaveArgument(i.opcode) THEN StackEffectOf(i.opcode, 0)
    ELSE IF i.arg.kind = "int" THEN StackEffectOf(i.opcode, i.arg.val)
    ELSE StackEffectOf(i.opcode, 0)

\* Captures: maps is ChainMap.maps (the newest child first), keys is _keys; a key
\* is a fresh object, here the number of keys made so far
NewCaptures == [maps |-> <<EmptyMap>>, keys |-> <<>>, made |-> 0]

\* lines 96-103: the Captures after enter(), and the key enter() returns
enter(c) ==
    [maps |-> <<EmptyMap>> \o c.maps, keys |-> Append(c.keys, c.made + 1),
     made |-> c.made + 1]
\* the key of the enter() before
KeyOfBefore(c) == c.made
\* line 98: the key of the next enter()
KeyOf(c) == c.made + 1

\* line 110: the assert of exit(key) holds (and the list is not empty)
ExitOk(c, key) == c.keys # <<>> /\ c.keys[Len(c.keys)] = key

\* ChainMap.parents: the chain without its first map; of a single map, a new one
parents(maps) == IF Len(maps) = 1 THEN <<EmptyMap>> ELSE Tail(maps)

\* an exit that pops the key and leaves the chain of maps as it is
exitKeepingMaps(c, key) == [c EXCEPT !.keys = SubSeq(c.keys, 1, Len(c.keys) - 1)]

\* lines 105-111: the Captures after a successful exit(key)
exit(c, key) ==
    [c EXCEPT !.keys = SubSeq(c.keys, 1, Len(c.keys) - 1), !.maps = parents(c.maps)]

\* line 110, the assert fails: _keys.pop() has taken the last key (IndexError when
\* there is none), line 111 is not reached
exitRaises(c, key) ==
    IF c.keys = <<>> THEN c ELSE [c EXCEPT !.keys = SubSeq(c.keys, 1, Len(c.keys) - 1)]

\* a set that writes into the outermost map
setitemOuter(c, name, value) == [c EXCEPT !.maps[Len(c.maps)] = Put(@, name, value)]

\* lines 117-118
setitem(c, name, value) == [c EXCEPT !.maps[1] = Put(@, name, value)]

\* lines 113-115
maybe(c, name, value) == IF name = "None" THEN c ELSE setitem(c, name, value)

\* lines 120-121: ChainMap lookup, the first map that holds the name
Bound(maps, name) == \E k \in DOMAIN maps : name \in DOMAIN maps[k]
Lookup(maps, name) == maps[Min({k \in DOMAIN maps : name \in DOMAIN maps[k]})][name]
getitem(c, name) == Lookup(c.maps, name)

\* dict(ChainMap)
DictOf(maps) ==
    [n \in UNION {DOMAIN maps[k] : k \in DOMAIN maps} |-> Lookup(maps, n)]

\* lines 123-124
to_dict(c) == DictOf(c.maps)

\* Patterns.  One record shape for every variant; a variant reads its own fields.
\* capture is a name or "None"; max is NoneInt for None; fixed_arg and capture_arg
\* belong to fixed_opcode's match_opcode.
Missing == [kind |-> "missing", name |-> "", val |-> VNone]
Back(name) == [kind |-> "Back", name |-> name, val |-> VNone]
Fixed(v) == [kind |-> "value", name |-> "", val |-> v]

PatBase ==
    [kind |-> "None", patterns |-> <<>>, min |-> 0, max |-> NoneInt, step |-> 1,
     capture |-> "None", int_length |-> TRUE, length |-> <<>>, value |-> NoInstruction,
     options |-> {}, opcode |-> "None", fixed_arg |-> Missing, capture_arg |-> "missing",
     callable |-> FALSE, target |-> {}, no_captures |-> FALSE]

Alternation(ps) == [PatBase EXCEPT !.kind = "Alternation", !.patterns = ps]
Concatenation(ps) == [PatBase EXCEPT !.kind = "Concatenation", !.patterns = ps]
Lookahead(base) == [PatBase EXCEPT !.kind = "Lookahead", !.patterns = <<base>>]
\* Lookahead(base, no_captures=True); match does not read the field
LookaheadNoCaptures(base) == [Lookahead(base) EXCEPT !.no_captures = TRUE]
EOS == [PatBase EXCEPT !.kind = "EOS"]
Repeat(base, min, max, step) ==
    [PatBase EXCEPT !.kind = "Repeat", !.patterns = <<base>>, !.min = min, !.max = max,
                    !.step = step]
\* Any(capture, length) with an int for length, and with a sequence of ints
AnyLength(capture, length) ==
    [PatBase EXCEPT !.kind = "Any", !.capture = capture, !.length = <<length>>]
AnyOfLengths(capture, lengths) ==
    [PatBase EXCEPT !.kind = "Any", !.capture = capture, !.int_length = FALSE,
                    !.length = lengths]
DirectMatch(value, capture) ==
    [PatBase EXCEPT !.kind = "DirectMatch", !.value = value, !.capture = capture]
AnyOfMatch(options, capture) ==
    [PatBase EXCEPT !.kind = "AnyOfMatch", !.options = options, !.capture = capture]
\* instruction_pattern.py, lines 21-40: FunctionMatch(match_opcode)
fixed_opcode(opcode, fixed_arg, capture_arg) ==
    [PatBase EXCEPT !.kind = "FunctionMatch", !.opcode = opcode, !.fixed_arg = fixed_arg,
                    !.capture_arg = capture_arg]
\* instruction_pattern.py, lines 43-46: target is a collection of ints, or a
\* callable that holds of the ints in target
StackEffectMatcher(target, callable, capture_count) ==
    [PatBase EXCEPT !.kind = "StackEffectMatcher", !.target = target,
                    !.callable = callable, !.capture = capture_count]

\* Pattern.__getitem__, lines 150-153: p[start:stop:step] and p[n]; a missing part
\* of the slice is None
Slice(p, start, stop, step) ==
    Repeat(p, IF start = NoneInt \/ start = 0 THEN 0 ELSE start, stop,
           IF step = NoneInt \/ step = 0 THEN 1 ELSE step)
Item(p, n) == Slice(p, n, n, NoneInt)

\* The frame of a generator, pattern.match(stream, start, captures): the pattern,
\* the start it was called with, where it stands (pc: "start" before the first
\* next(), "yielded" at a yield, "done"), and its locals.  entry is history: the
\* bindings visible when the generator first ran.
NewFrame(p, start) ==
    [pat |-> p, start |-> start, pc |-> "start", idx |-> 0, key |-> 0, stack |-> 0,
     keys_stack |-> <<>>, iter_stack |-> <<>>, result_stack |-> <<>>, entry |-> EmptyMap]

\* what next() on a generator gives: a value, StopIteration or an exception; with
\* the frame and the Captures as next() leaves them
Yield(v) == [kind |-> "yield", val |-> v]
Stop == [kind |-> "stop", val |-> Pos(0)]
Error == [kind |-> "error", val |-> Pos(0)]
Gave(out, f, c) == [out |-> out, frame |-> f, caps |-> c]
Stopped(f, c) == Gave(Stop, [f EXCEPT !.pc = "done"], c)
Raised(f, c) == Gave(Error, [f EXCEPT !.pc = "done"], c)
Yielded(v, f, c) == Gave(Yield(v), [f EXCEPT !.pc = "yielded"], c)

\* s[start : start + l] and s[start], 0-based
SliceOf(s, start, l) == SubSeq(s, start + 1, start + l)
At(s, start) == s[start + 1]

-----------------------------------------------------------------------------
(* The match generators, one next() at a time.  X_match(s, f, c) is next() on *)
(* the generator with frame f over the stream s with the Captures c.  A start *)
(* that is a tuple makes the first comparison with len(stream), or range(),   *)
(* raise TypeError.                                                           *)

RECURSIVE Resume(_, _, _)

\* a generator with one yield: hit.kind is what the code before the yield comes to
OneShot(f, c, hit) ==
    IF f.pc # "start" THEN Stopped(f, c)
    ELSE IF f.start.wrap > 0 THEN Raised(f, c)
    ELSE IF hit.kind = "error" THEN Raised(f, c)
    ELSE IF hit.kind = "stop" THEN Stopped(f, c)
    ELSE Yielded(Pos(hit.end), f, hit.caps)
Hit(end, c) == [kind |-> "yield", end |-> end, caps |-> c]
NoHit == [kind |-> "stop", end |-> 0, caps |-> NewCaptures]
HitError == [kind |-> "error", end |-> 0, caps |-> NewCaptures]

\* lines 304-309
DirectMatch_match(s, f, c) ==
    LET start == f.start.pos
    IN OneShot(f, c,
               IF start >= Len(s) THEN NoHit
               ELSE IF At(s, start) = f.pat.value
               THEN Hit(start + 1, maybe(c, f.pat.capture, VTok(At(s, start))))
               ELSE NoHit)

\* lines 334-340
AnyOfMatch_match(s, f, c) ==
    LET start == f.start.pos
    IN OneShot(f, c,
               IF start >= Len(s) THEN NoHit
               ELSE IF At(s, start) \in f.pat.options
               THEN Hit(start + 1, maybe(c, f.pat.capture, VTok(At(s, start))))
               ELSE NoHit)

\* instruction_pattern.py, lines 25-38: "False", "True", "dict" ({capture_arg:
\* ins.arg}) or "KeyError" (captures[name] of a name that is not bound)
match_opcode(p, c, i) ==
    LET r == IF p.capture_arg # "missing" THEN "dict" ELSE "True"
    IN IF i.opcode # p.opcode THEN "False"
       ELSE IF p.fixed_arg.kind = "Back"
       THEN IF ~Bound(c.maps, p.fixed_arg.name) THEN "KeyError"
            ELSE IF getitem(c, p.fixed_arg.name) # ArgVal(i) THEN "False"
            ELSE r
       ELSE IF p.fixed_arg.kind = "value" /\ ArgVal(i) # p.fixed_arg.val THEN "False"
       ELSE r

\* lines 317-326, with func = match_opcode; lines 126-127 for extend
FunctionMatch_match(s, f, c) ==
    LET start == f.start.pos
        r == match_opcode(f.pat, c, At(s, start))
        c1 == maybe(c, f.pat.capture, VTok(At(s, start)))
    IN OneShot(f, c,
               IF start >= Len(s) THEN NoHit
               ELSE IF r = "KeyError" THEN HitError
               ELSE IF r = "False" THEN NoHit
               ELSE IF r = "dict"
               THEN Hit(start + 1, setitem(c1, f.pat.capture_arg, ArgVal(At(s, start))))
               ELSE Hit(start + 1, c1))

\* lines 192-194
EOS_match(s, f, c) ==
    OneShot(f, c, IF f.start.pos >= Len(s) THEN Hit(f.start.pos, c) ELSE NoHit)

\* lines 290-296: the for loop from the f.idx-th length on
RECURSIVE AnyLoop(_, _, _)
AnyLoop(s, f, c) ==
    IF f.idx > Len(f.pat.length) THEN Stopped(f, c)
    ELSE LET l == f.pat.length[f.idx]
             start == f.start.pos
         IN IF start + l > Len(s) THEN AnyLoop(s, [f EXCEPT !.idx = @ + 1], c)
            ELSE Yielded(Pos(start + l), [f EXCEPT !.key = KeyOf(c)],
                         maybe(enter(c), f.pat.capture, VSeq(SliceOf(s, start, l))))

\* lines 281-296
Any_match(s, f, c) ==
    LET start == f.start.pos
        l == f.pat.length[1]
    IN IF f.pat.int_length
       THEN OneShot(f, c,
                    IF start >= Len(s) \/ start + l > Len(s) THEN NoHit
                    ELSE Hit(start + l, maybe(c, f.pat.capture, VSeq(SliceOf(s, start, l)))))
       ELSE IF f.pc = "start"
       THEN IF f.start.wrap > 0 THEN Raised(f, c)
            ELSE IF start >= Len(s) THEN Stopped(f, c)
            ELSE AnyLoop(s, [f EXCEPT !.idx = 1], c)
       ELSE IF f.pc = "yielded"
       THEN IF ExitOk(c, f.key) THEN AnyLoop(s, [f EXCEPT !.idx = @ + 1], exit(c, f.key))
            ELSE Raised(f, exitRaises(c, f.key))
       ELSE Stopped(f, c)

\* instruction_pattern.py, line 52
Satisfies(p, stack) ==
    (~p.callable /\ stack \in p.target) \/ (p.callable /\ stack \in p.target)

\* a scan that forgets the depth it has summed up
StackOfToken(stack, i) == stack_effect(i)

\* instruction_pattern.py, line 51
StackAfter(stack, i) == stack + stack_effect(i)

\* instruction_pattern.py, lines 50-56: the for loop from i = f.idx on
RECURSIVE StackLoop(_, _, _)
StackLoop(s, f, c) ==
    IF f.idx >= Len(s) THEN Stopped(f, c)
    ELSE LET stack == StackAfter(f.stack, At(s, f.idx))
             f1 == [f EXCEPT !.idx = @ + 1, !.stack = stack]
         IN IF Satisfies(f.pat, stack)
            THEN Yielded(Pos(f.idx + 1), [f1 EXCEPT !.key = KeyOf(c)],
                         maybe(enter(c), f.pat.capture, VInt(stack)))
            ELSE StackLoop(s, f1, c)

\* instruction_pattern.py, lines 48-56
StackEffectMatcher_match(s, f, c) ==
    IF f.pc = "start"
    THEN IF f.start.wrap > 0 THEN Raised(f, c)
         ELSE StackLoop(s, [f EXCEPT !.idx = f.start.pos, !.stack = 0], c)
    ELSE IF f.pc = "yielded"
    THEN IF ExitOk(c, f.key) THEN StackLoop(s, f, exit(c, f.key))
         ELSE Raised(f, exitRaises(c, f.key))
    ELSE Stopped(f, c)

\* lines 186-188: the for loop over base's emissions
Lookahead_loop(s, f, c) ==
    LET r == Resume(s, f.iter_stack[1], c)
        f1 == [f EXCEPT !.iter_stack = <<r.frame>>]
    IN IF r.out.kind = "yield" THEN Yielded(f.start, f1, r.caps)
       ELSE IF r.out.kind = "error" THEN Raised(f1, r.caps)
       ELSE IF ExitOk(r.caps, f.key) THEN Stopped(f1, exit(r.caps, f.key))
       ELSE Raised(f1, exitRaises(r.caps, f.key))

\* lines 184-188
Lookahead_match(s, f, c) ==
    IF f.pc = "start"
    THEN Lookahead_loop(s, [f EXCEPT !.key = KeyOf(c), !.entry = to_dict(c),
                                     !.iter_stack = <<NewFrame(f.pat.patterns[1], f.start)>>],
                        enter(c))
    ELSE IF f.pc = "yielded" THEN Lookahead_loop(s, f, c)
    ELSE Stopped(f, c)

\* lines 161-164: the for loop from the f.idx-th pattern on; branch is TRUE when
\* the generator of that pattern is running (yield from), FALSE at the top of the
\* loop body
RECURSIVE Alternation_loop(_, _, _, _)
Alternation_loop(s, f, c, branch) ==
    IF ~branch
    THEN IF f.idx > Len(f.pat.patterns) THEN Stopped(f, c)
         ELSE Alternation_loop(
                  s,
                  [f EXCEPT !.key = KeyOf(c),
                            !.iter_stack = <<NewFrame(f.pat.patterns[f.idx], f.start)>>],
                  enter(c), TRUE)
    ELSE LET r == Resume(s, f.iter_stack[1], c)
             f1 == [f EXCEPT !.iter_stack = <<r.frame>>]
         IN IF r.out.kind = "yield" THEN Yielded(r.out.val, f1, r.caps)
            ELSE IF r.out.kind = "error" THEN Raised(f1, r.caps)
            ELSE IF ExitOk(r.caps, f.key)
            THEN Alternation_loop(s, [f EXCEPT !.idx = @ + 1, !.iter_stack = <<>>],
                                  exit(r.caps, f.key), FALSE)
            ELSE Raised(f1, exitRaises(r.caps, f.key))

\* lines 160-164
Alternation_match(s, f, c) ==
    IF f.pc = "start"
    THEN Alternation_loop(s, [f EXCEPT !.idx = 1, !.entry = to_dict(c)], c, FALSE)
    ELSE IF f.pc = "yielded" THEN Alternation_loop(s, f, c, TRUE)
    ELSE Stopped(f, c)

\* the last element of a stack and the stack without it
Top(st) == st[Len(st)]
Pop(st) == SubSeq(st, 1, Len(st) - 1)

\* a later step started where the whole pattern started
PushAtStart(f, c, p) ==
    [f EXCEPT !.keys_stack = Append(@, KeyOf(c)),
              !.iter_stack = Append(@, NewFrame(p, f.start))]

\* lines 217-218, 264-265 and 270-271: a new scope and the generator of pattern p
\* started at the result on top
Push(f, c, p) ==
    [f EXCEPT !.keys_stack = Append(@, KeyOf(c)),
              !.iter_stack = Append(@, NewFrame(p, Top(f.result_stack)))]

\* the while loop with every later step started where the pattern started
RECURSIVE Concatenation_loopAtStart(_, _, _)
Concatenation_loopAtStart(s, f, c) ==
    IF f.iter_stack = <<>> THEN Stopped(f, c)
    ELSE IF Len(f.result_stack) < Len(f.iter_stack)
    THEN LET k == Len(f.result_stack) + 1
             r == Resume(s, f.iter_stack[k], c)
             f1 == [f EXCEPT !.iter_stack[k] = r.frame]
             f2 == [f EXCEPT !.iter_stack = Pop(@), !.keys_stack = Pop(@)]
         IN IF r.out.kind = "yield"
            THEN Concatenation_loopAtStart(s, [f1 EXCEPT !.result_stack = Append(@, r.out.val)],
                                    r.caps)
            ELSE IF r.out.kind = "error" THEN Raised(f1, r.caps)
            ELSE IF ~ExitOk(r.caps, Top(f.keys_stack))
            THEN Raised(f2, exitRaises(r.caps, Top(f.keys_stack)))
            ELSE IF f.result_stack = <<>>
            THEN Stopped(f2, exit(r.caps, Top(f.keys_stack)))
            ELSE Concatenation_loopAtStart(s, [f2 EXCEPT !.result_stack = Pop(@)],
                                    exit(r.caps, Top(f.keys_stack)))
    ELSE IF Len(f.iter_stack) < Len(f.pat.patterns)
    THEN Concatenation_loopAtStart(s, PushAtStart(f, c, f.pat.patterns[Len(f.iter_stack) + 1]), enter(c))
    ELSE Yielded(Top(f.result_stack), f, c)

\* lines 205-222: the while loop, up to the next yield or the return
RECURSIVE Concatenation_loop(_, _, _)
Concatenation_loop(s, f, c) ==
    IF f.iter_stack = <<>> THEN Stopped(f, c)
    ELSE IF Len(f.result_stack) < Len(f.iter_stack)
    THEN LET k == Len(f.result_stack) + 1
             r == Resume(s, f.iter_stack[k], c)
             f1 == [f EXCEPT !.iter_stack[k] = r.frame]
             f2 == [f EXCEPT !.iter_stack = Pop(@), !.keys_stack = Pop(@)]
         IN IF r.out.kind = "yield"
            THEN Concatenation_loop(s, [f1 EXCEPT !.result_stack = Append(@, r.out.val)],
                                    r.caps)
            ELSE IF r.out.kind = "error" THEN Raised(f1, r.caps)
            ELSE IF ~ExitOk(r.caps, Top(f.keys_stack))
            THEN Raised(f2, exitRaises(r.caps, Top(f.keys_stack)))
            ELSE IF f.result_stack = <<>>
            THEN Stopped(f2, exit(r.caps, Top(f.keys_stack)))
            ELSE Concatenation_loop(s, [f2 EXCEPT !.result_stack = Pop(@)],
                                    exit(r.caps, Top(f.keys_stack)))
    ELSE IF Len(f.iter_stack) < Len(f.pat.patterns)
    THEN Concatenation_loop(s, Push(f, c, f.pat.patterns[Len(f.iter_stack) + 1]), enter(c))
    ELSE Yielded(Top(f.result_stack), f, c)

\* lines 201-222
Concatenation_match(s, f, c) ==
    IF f.pc = "start"
    THEN Concatenation_loop(
             s,
             [f EXCEPT !.entry = to_dict(c), !.keys_stack = <<KeyOf(c)>>,
                       !.iter_stack = <<NewFrame(f.pat.patterns[1], f.start)>>],
             enter(c))
    ELSE IF f.pc = "yielded"
    THEN Concatenation_loop(s, [f EXCEPT !.result_stack = Pop(@)], c)
    ELSE Stopped(f, c)

\* lines 252-273: the while loop, up to the next yield or the return; after is
\* TRUE when the loop is entered behind the yield of line 268
RECURSIVE Repeat_loop(_, _, _, _)
Repeat_loop(s, f, c, after) ==
    IF after
    THEN IF f.pat.max = NoneInt \/ Len(f.iter_stack) < f.pat.max
         THEN Repeat_loop(s, Push(f, c, f.pat.patterns[1]), enter(c), FALSE)
         ELSE Repeat_loop(s, [f EXCEPT !.result_stack = Pop(@)], c, FALSE)
    ELSE IF f.iter_stack = <<>> THEN Stopped(f, c)
    ELSE IF Len(f.result_stack) < Len(f.iter_stack)
    THEN LET k == Len(f.result_stack) + 1
             r == Resume(s, f.iter_stack[k], c)
             f1 == [f EXCEPT !.iter_stack[k] = r.frame]
             f2 == [f EXCEPT !.iter_stack = Pop(@), !.keys_stack = Pop(@)]
         IN IF r.out.kind = "yield"
            THEN Repeat_loop(s, [f1 EXCEPT !.result_stack = Append(@, r.out.val)],
                             r.caps, FALSE)
            ELSE IF r.out.kind = "error" THEN Raised(f1, r.caps)
            ELSE IF ~ExitOk(r.caps, Top(f.keys_stack))
            THEN Raised(f2, exitRaises(r.caps, Top(f.keys_stack)))
            ELSE IF f2.iter_stack = <<>>
            THEN Stopped(f2, exit(r.caps, Top(f.keys_stack)))
            ELSE Repeat_loop(s, [f2 EXCEPT !.result_stack = Pop(@)],
                             exit(r.caps, Top(f.keys_stack)), FALSE)
    ELSE IF Len(f.iter_stack) < f.pat.min
    THEN Repeat_loop(s, Push(f, c, f.pat.patterns[1]), enter(c), FALSE)
    ELSE IF (Len(f.iter_stack) - f.pat.min) % f.pat.step = 0
    THEN Yielded(Top(f.result_stack), f, c)
    ELSE Repeat_loop(s, f, c, TRUE)

\* lines 249-251: the stacks before the loop
Repeat_begin(s, f, c) ==
    Repeat_loop(s,
                [f EXCEPT !.idx = 1, !.entry = to_dict(c), !.keys_stack = <<KeyOf(c)>>,
                          !.iter_stack = <<NewFrame(f.pat.patterns[1], f.start)>>],
                enter(c), FALSE)

\* lines 246-273; idx = 0 until the stacks are built, so that next() behind the
\* yield of line 248 builds them
Repeat_match(s, f, c) ==
    IF f.pc = "start"
    THEN IF f.pat.min = 0 THEN Yielded(Tup(f.start), f, c) ELSE Repeat_begin(s, f, c)
    ELSE IF f.pc = "yielded"
    THEN IF f.idx = 0 THEN Repeat_begin(s, f, c) ELSE Repeat_loop(s, f, c, TRUE)
    ELSE Stopped(f, c)

\* next() on the generator with frame f
Resume(s, f, c) ==
    CASE f.pat.kind = "Alternation" -> Alternation_match(s, f, c)
      [] f.pat.kind = "Concatenation" -> Concatenation_match(s, f, c)
      [] f.pat.kind = "Repeat" -> Repeat_match(s, f, c)
      [] f.pat.kind = "Lookahead" -> Lookahead_match(s, f, c)
      [] f.pat.kind = "EOS" -> EOS_match(s, f, c)
      [] f.pat.kind = "Any" -> Any_match(s, f, c)
      [] f.pat.kind = "DirectMatch" -> DirectMatch_match(s, f, c)
      [] f.pat.kind = "AnyOfMatch" -> AnyOfMatch_match(s, f, c)
      [] f.pat.kind = "FunctionMatch" -> FunctionMatch_match(s, f, c)
      [] f.pat.kind = "StackEffectMatcher" -> StackEffectMatcher_match(s, f, c)

\* a generator pulled until it stops or raises: its emissions in order, each with
\* the bindings at the time, and how it ended ("stop" or "error")
RECURSIVE Pull(_, _, _, _)
Pull(s, f, c, acc) ==
    LET r == Resume(s, f, c)
    IN IF r.out.kind = "yield"
       THEN Pull(s, r.frame, r.caps,
                 Append(acc, [end |-> r.out.val, captures |-> to_dict(r.caps)]))
       ELSE [emissions |-> acc, kind |-> r.out.kind]
\* pattern.match(stream, start, Captures()) pulled to its end
Enumeration(p, s, start) == Pull(s, NewFrame(p, Pos(start)), NewCaptures, <<>>)
\* every emission of pattern p started at start
Emissions(p, s, start) == Enumeration(p, s, start).emissions

-----------------------------------------------------------------------------
(* The drivers of general_searching.py *)

\* MatchResult(start, end, orig, captures); orig is the stream
MatchResult(start, end, caps) ==
    [kind |-> "MatchResult", start |-> start, end |-> end, captures |-> caps]
\* what a driver has come to: nothing yet ("pending"), the value None, the
\* exception _NoMatch, another exception ("error"), or that the loop of a caller
\* of pattern.match ran to its end ("exhausted")
Outcome(kind) == [kind |-> kind, start |-> 0, end |-> Pos(0), captures |-> EmptyMap]

\* r.end > best.end of line 84: ints compare; tuples compare by their first
\* elements (the second elements, {}, are equal); an int and a tuple do not
Comparable(v, w) == v.wrap = w.wrap
Greater(v, w) == v.pos > w.pos

\* i >= len(stream) of line 39
ReachesEnd(v, s) == v.pos >= Len(s)

\* the tokens of the streams
TokA == Instruction("LOAD_FAST", ArgInt(0))
TokB == Instruction("LOAD_FAST", ArgInt(1))
TokP == Instruction("POP_TOP", ArgNone)
Tokens == {TokA, TokB, TokP}

Streams == UNION {[1..n -> Tokens] : n \in 0..MaxLen}

\* p[min:max:step] for a pattern p that matches the one token TokA
OrNone(S) == {NoneInt} \cup S
RepeatPatterns ==
    {Slice(DirectMatch(TokA, "None"), mn, mx, st) :
        mn \in OrNone(0..MaxMin), mx \in OrNone(0..MaxMax), st \in OrNone(1..MaxStep)}

\* a captured operand compared with Back: first the operand of a LOAD_FAST is
\* captured as n, then LOAD_FASTs with that operand are repeated; the stack depth
\* is captured as argc and a LOAD_FAST must have it as operand; a Back alone
LoadBack(name) == fixed_opcode("LOAD_FAST", Back(name), "missing")
BackPatterns ==
    {Concatenation(<<fixed_opcode("LOAD_FAST", Missing, "n"),
                     Slice(LoadBack("n"), mn, NoneInt, NoneInt)>>) : mn \in 0..1}
    \cup {Concatenation(<<StackEffectMatcher({1}, FALSE, "argc"), LoadBack("argc")>>),
          LoadBack("n")}

\* alternations whose branches bind names
AltPatterns ==
    {Alternation(<<DirectMatch(TokA, "x"), AnyLength("y", 1)>>),
     Alternation(<<DirectMatch(TokA, "x"), DirectMatch(TokA, "y"),
                   DirectMatch(TokA, "None")>>),
     Alternation(<<Concatenation(<<DirectMatch(TokA, "x"), DirectMatch(TokP, "None")>>),
                   DirectMatch(TokA, "y")>>),
     Alternation(<<AnyOfLengths("x", <<1, 2>>), DirectMatch(TokA, "y")>>),
     Concatenation(<<AnyLength("x", 1),
                     Alternation(<<DirectMatch(TokA, "x"), DirectMatch(TokB, "y")>>),
                     DirectMatch(TokB, "None")>>),
     Concatenation(<<AnyLength("x", 1),
                     Alternation(<<AnyOfMatch({TokA, TokB}, "x"), AnyLength("y", 1)>>)>>)}

\* one pattern that matches at several lengths, in either order
LengthPatterns ==
    {AnyOfLengths("None", <<1, 3>>), AnyOfLengths("None", <<3, 1>>),
     AnyOfLengths("x", <<2, 1, 2>>)}

StackPatterns ==
    {StackEffectMatcher(t, FALSE, "argc") : t \in {{0}, {1}, {-1}, {0, 1}, {1, 2}}}
    \cup {StackEffectMatcher(t, TRUE, "None") : t \in {{0}, {1}, {-1}, {0, 1}, {1, 2}}}

OtherPatterns ==
    {Concatenation(<<Slice(DirectMatch(TokA, "None"), NoneInt, NoneInt, NoneInt),
                     DirectMatch(TokB, "None")>>),
     Concatenation(<<Item(AnyLength("x", 1), 2), EOS>>),
     Concatenation(<<Lookahead(DirectMatch(TokA, "x")), AnyLength("y", 2)>>),
     Concatenation(<<AnyOfLengths("x", <<2, 1>>), AnyOfLengths("y", <<1, 2>>)>>)}

\* the variants that bind a capture without a scope of their own, alone
LeafPatterns ==
    {DirectMatch(TokA, "x"), AnyLength("x", 1), AnyOfMatch({TokA, TokB}, "y")}

\* lookaheads alone and before another step, over an inner pattern with one
\* emission and with two, with and without no_captures
LookaheadPatterns ==
    {Lookahead(AnyOfLengths("x", <<1, 2>>)),
     LookaheadNoCaptures(DirectMatch(TokA, "x")),
     Concatenation(<<LookaheadNoCaptures(DirectMatch(TokA, "x")), AnyLength("y", 1)>>)}

Patterns ==
    RepeatPatterns \cup BackPatterns \cup AltPatterns \cup LengthPatterns
    \cup StackPatterns \cup OtherPatterns \cup LeafPatterns \cup LookaheadPatterns

\* the entry points: "match" is a caller's for loop over pattern.match(stream,
\* start, captures); "fullmatch" is MatcherFirst.fullmatch; "first" is
\* MatcherFirst._match and "longest" is MatcherLongest._match, called with start
Drivers == {"match", "fullmatch", "first", "longest"}

\* no matcher is running (the assembler runs)
InitMatchIdle ==
    /\ pattern = PatBase
    /\ stream = <<>>
    /\ mstart = 0
    /\ driver = "None"
    /\ mpc = "None"
    /\ gen = NewFrame(PatBase, Pos(0))
    /\ captures = NewCaptures
    /\ best = Outcome("None")
    /\ returned = Outcome("pending")
    /\ emitted = <<>>

\* neither search nor findall nor find_pattern runs
InitFindIdle ==
    /\ fun = "None"
    /\ matcher = "None"
    /\ overlapping = FALSE
    /\ fblocks = <<>>
    /\ fidx = 0
    /\ scan = 0
    /\ found = <<>>
    /\ fpc = "None"
    /\ fret = Outcome("pending")

\* no caller holds a Captures
InitStoreIdle ==
    /\ store = NewCaptures
    /\ opened = <<>>
    /\ lastop = [op |-> "None", key |-> 0, ok |-> TRUE, before |-> NewCaptures,
                 top |-> [key |-> 0, snap |-> EmptyMap, depth |-> 0, clean |-> FALSE],
                 n |-> 0]

\* nobody calls make_sure
InitTableIdle ==
    /\ table = <<>>
    /\ lastcall = [op |-> "None", value |-> [val |-> NoneInt, type |-> "none"],
                   index |-> NoneInt, ok |-> TRUE, before |-> <<>>,
                   prev |-> [value |-> [val |-> NoneInt, type |-> "none"],
                             index |-> NoneInt, before |-> <<>>],
                   n |-> 0]

\* nobody calls as_basic_blocks alone
InitLinIdle ==
    linear = [ok |-> FALSE, result |-> <<>>, called |-> FALSE, calls |-> 0,
              prev |-> [ok |-> FALSE, result |-> <<>>]]
InitTabIdle ==
    linetab = [offsets |-> EmptyMap, end |-> 0, called |-> FALSE, ok |-> FALSE,
               startline |-> 0, out |-> <<>>]

-----------------------------------------------------------------------------
(* The graphs and streams the assembler is run on *)

NOP == Instruction("NOP", ArgNone)
WideCall == Instruction("CALL_FUNCTION", ArgInt(UnitMax + 1))

\* A hand-built graph has the blocks 1..MaxBlock.  Each block has two places for a
\* Label: its jump instruction and its fallthrough (next_target); at most MaxLabels
\* places of a graph are filled.  A Label names a block of the graph or
\* MaxBlock + 1, an id no block has.
Slots == (1..MaxBlock) \X {"jump", "next"}
SlotSets == {S \in SUBSET Slots : Cardinality(S) <= MaxLabels}
SlotChoices ==
    [opcode : {"JUMP_ABSOLUTE", "FOR_ITER"}, target_id : 1..(MaxBlock + 1),
     offset : {0, LongPad - 1}]
Fillings(S) ==
    {f \in [S -> SlotChoices] :
        \A sl \in S : sl[2] = "next" => (f[sl].opcode = "JUMP_ABSOLUTE" /\ f[sl].offset = 0)}

\* wide: block 1 starts with a CALL_FUNCTION whose operand needs two units;
\* pad[1]: block 1 holds a NOP; pad[2]: block 2 holds a long run of NOPs; a block
\* after the second holds one NOP
PadOf(b, pad) ==
    IF b = 1 THEN (IF pad[1] THEN 1 ELSE 0)
    ELSE IF b = 2 THEN (IF pad[2] THEN LongPad ELSE 0)
    ELSE 1

BlockOf(b, S, f, wide, pad) ==
    BasicBlock(b,
               (IF wide /\ b = 1 THEN <<WideCall>> ELSE <<>>) \o Repl(NOP, PadOf(b, pad)),
               IF <<b, "jump">> \in S
               THEN Instruction(f[<<b, "jump">>].opcode,
                        BasicBlockTarget(f[<<b, "jump">>].target_id, f[<<b, "jump">>].offset))
               ELSE NoInstruction,
               IF <<b, "next">> \in S
               THEN BasicBlockTarget(f[<<b, "next">>].target_id, 0)
               ELSE NoLabel,
               1)

Consts == <<[val |-> 1, type |-> "int"], [val |-> 1, type |-> "bool"]>>

Ascending(n) == [k \in 1..n |-> k]

InitAsmIdle ==
    /\ ins = <<>>
    /\ jumps = EmptyMap
    /\ line_starts = EmptyMap
    /\ line_offsets = EmptyMap
    /\ actual_targets = EmptyMap
    /\ old_hash = <<>>
    /\ raw_ins = <<>>
    /\ passes = 0
    /\ co_code = <<>>

\* a FunctionBlock built by hand, before assemble is called
InitGraph ==
    /\ code = <<>>
    /\ co_consts = Consts
    /\ \E S \in SlotSets : \E f \in Fillings(S) :
         \E wide \in BOOLEAN : \E pad \in [1..2 -> BOOLEAN] :
            blocks = [b \in 1..MaxBlock |-> BlockOf(b, S, f, wide, pad)]
    /\ order = Ascending(MaxBlock)
    /\ entry = 1
    /\ apc = "graph"
    /\ InitAsmIdle
    /\ InitMatchIdle
    /\ InitFindIdle
    /\ InitStoreIdle
    /\ InitTableIdle
    /\ InitLinIdle
    /\ InitTabIdle

\* The streams handed to nop: units [opcode, arg, starts_line] where the line that
\* starts at unit k, if one does, is line k.
StreamOps ==
    {"NOP", "RETURN_VALUE", "CALL_FUNCTION", "LOAD_CONST", "EXTENDED_ARG",
     "JUMP_ABSOLUTE", "POP_JUMP_IF_FALSE", "FOR_ITER", "JUMP_FORWARD"}
UnitChoices ==
    {u \in [opcode : StreamOps, arg : 0..MaxArg, starts_line : BOOLEAN] :
        ~HaveArgument(u.opcode) => u.arg = 0}
StreamOf(us) ==
    [k \in DOMAIN us |->
        [opcode |-> us[k].opcode, arg |-> us[k].arg,
         starts_line |-> IF us[k].starts_line THEN k ELSE NoneInt]]

\* A well-formed stream: its first unit starts a line; an EXTENDED_ARG is followed
\* by a unit that takes an operand; a constant index is in the table; every jump
\* lands on a unit of the stream; control cannot run off the end.
WellFormed(c, consts) ==
    /\ c[1].starts_line # NoneInt
    /\ no_next(c[Len(c)])
    /\ \A k \in DOMAIN c :
         /\ c[k].opcode = "EXTENDED_ARG" =>
                k < Len(c) /\ HaveArgument(c[k + 1].opcode)
         /\ c[k].opcode \in hasconst => FullArg(c, k) < Len(consts)
         /\ is_jump(c[k]) => RawTarget(c, k) \div 2 < Len(c)

\* nop(func) is called on a function whose code is the stream
InitCode ==
    /\ \E n \in 1..MaxCode : \E us \in [1..n -> UnitChoices] : code = StreamOf(us)
    /\ WellFormed(code, Consts)
    /\ co_consts = Consts
    /\ blocks = EmptyMap
    /\ order = <<>>
    /\ entry = 0
    /\ apc = "code"
    /\ InitAsmIdle
    /\ InitMatchIdle
    /\ InitFindIdle
    /\ InitStoreIdle
    /\ InitTableIdle
    /\ InitLinIdle
    /\ InitTabIdle

\* nop, line 358: b = disassemble(func.__code__)
Disassemble ==
    /\ apc = "code"
    /\ \E d \in {disassemble(code, co_consts)} :
          IF d.ok
          THEN /\ blocks' = d.blocks
               /\ order' = d.order
               /\ entry' = 1
               /\ apc' = "graph"
          ELSE /\ apc' = "error"
               /\ UNCHANGED <<blocks, order, entry>>
    /\ UNCHANGED <<code, co_consts, ins, jumps, line_starts, line_offsets,
                   actual_targets, old_hash, raw_ins, passes, co_code>>
    /\ UNCHANGED <<matchVars, libVars>>

-----------------------------------------------------------------------------
(* FunctionBlock.assemble, one action per step *)

\* lines 285-289: get_instructions and the locals of the loop
AssembleStart ==
    /\ apc = "graph"
    /\ \E g \in {get_instructions(blocks, order, entry)} :
          IF g.ok
          THEN /\ ins' = g.ins
               /\ jumps' = g.jumps
               /\ line_starts' = g.line_starts
               /\ actual_targets' = InitialTargets(g.jumps)
               /\ apc' = "loop"
          ELSE /\ apc' = "error"
               /\ UNCHANGED <<ins, jumps, line_starts, actual_targets>>
    /\ UNCHANGED <<code, co_consts, blocks, order, entry, line_offsets, old_hash,
                   raw_ins, passes, co_code>>
    /\ UNCHANGED <<matchVars, libVars>>

\* lines 290-301: one pass of the while loop
AssemblePass ==
    /\ apc = "loop"
    /\ old_hash # HashOf(actual_targets)
    /\ passes < MaxPasses
    /\ \E r \in {PassFrom(ins, co_consts, jumps, line_starts, actual_targets)} :
          /\ old_hash' = HashOf(actual_targets)
          /\ actual_targets' = r.actual_targets
          /\ line_offsets' = r.line_offsets
          /\ raw_ins' = r.raw_ins
          /\ apc' = IF r.ok THEN "loop" ELSE "error"
    /\ passes' = passes + 1
    /\ UNCHANGED <<code, co_consts, blocks, order, entry, ins, jumps, line_starts, co_code>>
    /\ UNCHANGED <<matchVars, libVars>>

\* lines 302-308: the loop test fails; the line table and the code bytes are built
AssembleBuild ==
    /\ apc = "loop"
    /\ old_hash = HashOf(actual_targets)
    /\ \E r \in {_to_linetab(line_offsets, Len(raw_ins) * 2)} :
          /\ linetab' = TabCall(line_offsets, Len(raw_ins) * 2, r)
          /\ IF r.ok
             THEN co_code' = _to_bytes(raw_ins) /\ apc' = "done"
             ELSE co_code' = co_code /\ apc' = "error"
    /\ UNCHANGED <<code, co_consts, blocks, order, entry, ins, jumps, line_starts,
                   line_offsets, actual_targets, old_hash, raw_ins, passes>>
    /\ UNCHANGED <<matchVars, findVars, storeVars, tableVars, linear>>

NextAsm == AssembleStart \/ AssemblePass \/ AssembleBuild

SpecAsm == InitGraph /\ [][NextAsm]_vars

NextNop == Disassemble \/ NextAsm

SpecNop == InitCode /\ [][NextNop]_vars

-----------------------------------------------------------------------------
(* The drivers, one action per call and per pass of their for loop *)

\* no assembler is running (a matcher runs)
InitAsmOff ==
    /\ code = <<>>
    /\ co_consts = Consts
    /\ blocks = EmptyMap
    /\ order = <<>>
    /\ entry = 0
    /\ apc = "None"
    /\ InitAsmIdle

\* a driver is about to be called on a pattern and a stream
InitMatch ==
    /\ pattern \in Patterns
    /\ stream \in Streams
    /\ driver \in Drivers
    /\ mstart \in 0..MaxStart
    /\ driver = "fullmatch" => mstart = 0
    /\ mpc = "call"
    /\ gen = NewFrame(PatBase, Pos(0))
    /\ captures = NewCaptures
    /\ best = Outcome("None")
    /\ returned = Outcome("pending")
    /\ emitted = <<>>
    /\ InitAsmOff
    /\ InitFindIdle
    /\ InitStoreIdle
    /\ InitTableIdle
    /\ InitLinIdle
    /\ InitTabIdle

\* lines 37-38, 45-46 and 79-80: captures = Captures() and the call of
\* pattern.match; the drivers call it with start 0
CallMatch ==
    /\ mpc = "call"
    /\ captures' = NewCaptures
    /\ gen' = NewFrame(pattern, IF driver = "match" THEN Pos(mstart) ELSE Pos(0))
    /\ mpc' = "iter"
    /\ UNCHANGED <<pattern, stream, mstart, driver, best, returned, emitted>>
    /\ UNCHANGED <<asmVars, libVars>>

\* what the for loop of a driver has got from next(): the value and
\* captures.to_dict() at that time
Seen(r) == [end |-> r.out.val, captures |-> to_dict(r.caps)]

\* one pass of a caller's loop for i in pattern.match(stream, start, captures)
PatternNext ==
    /\ mpc = "iter"
    /\ driver = "match"
    /\ LET r == Resume(stream, gen, captures)
       IN /\ gen' = r.frame
          /\ captures' = r.caps
          /\ IF r.out.kind = "yield"
             THEN /\ emitted' = Append(emitted, Seen(r))
                  /\ UNCHANGED <<mpc, returned>>
             ELSE /\ mpc' = "done"
                  /\ returned' = Outcome(IF r.out.kind = "error" THEN "error" ELSE "exhausted")
                  /\ UNCHANGED emitted
    /\ UNCHANGED <<pattern, stream, mstart, driver, best>>
    /\ UNCHANGED <<asmVars, libVars>>

\* MatcherFirst.fullmatch, lines 38-42: one pass of the for loop
FullmatchNext ==
    /\ mpc = "iter"
    /\ driver = "fullmatch"
    /\ LET r == Resume(stream, gen, captures)
       IN /\ gen' = r.frame
          /\ captures' = r.caps
          /\ IF r.out.kind = "yield"
             THEN /\ emitted' = Append(emitted, Seen(r))
                  /\ IF r.out.val.wrap > 0
                     THEN mpc' = "done" /\ returned' = Outcome("error")
                     ELSE IF ReachesEnd(r.out.val, stream)
                     THEN /\ mpc' = "done"
                          /\ returned' = MatchResult(0, r.out.val, to_dict(r.caps))
                     ELSE UNCHANGED <<mpc, returned>>
             ELSE /\ mpc' = "done"
                  /\ returned' = Outcome(IF r.out.kind = "error" THEN "error" ELSE "None")
                  /\ UNCHANGED emitted
    /\ UNCHANGED <<pattern, stream, mstart, driver, best>>
    /\ UNCHANGED <<asmVars, libVars>>

\* MatcherFirst._match, lines 46-49: the for loop returns in its first pass
FirstNext ==
    /\ mpc = "iter"
    /\ driver = "first"
    /\ LET r == Resume(stream, gen, captures)
       IN /\ gen' = r.frame
          /\ captures' = r.caps
          /\ mpc' = "done"
          /\ IF r.out.kind = "yield"
             THEN /\ emitted' = Append(emitted, Seen(r))
                  /\ returned' = MatchResult(0, r.out.val, to_dict(r.caps))
             ELSE /\ returned' = Outcome(IF r.out.kind = "error" THEN "error" ELSE "NoMatch")
                  /\ UNCHANGED emitted
    /\ UNCHANGED <<pattern, stream, mstart, driver, best>>
    /\ UNCHANGED <<asmVars, libVars>>

\* MatcherLongest._match, lines 80-88: one pass of the for loop, or the end of it
LongestNext ==
    /\ mpc = "iter"
    /\ driver = "longest"
    /\ LET r == Resume(stream, gen, captures)
           m == MatchResult(0, r.out.val, to_dict(r.caps))
       IN /\ gen' = r.frame
          /\ captures' = r.caps
          /\ IF r.out.kind = "yield"
             THEN /\ emitted' = Append(emitted, Seen(r))
                  /\ IF best.kind = "None"
                     THEN best' = m /\ UNCHANGED <<mpc, returned>>
                     ELSE IF ~Comparable(m.end, best.end)
                     THEN mpc' = "done" /\ returned' = Outcome("error") /\ UNCHANGED best
                     ELSE /\ best' = IF Greater(m.end, best.end) THEN m ELSE best
                          /\ UNCHANGED <<mpc, returned>>
             ELSE /\ mpc' = "done"
                  /\ returned' = IF r.out.kind = "error" THEN Outcome("error")
                               ELSE IF best.kind = "None" THEN Outcome("NoMatch")
                               ELSE best
                  /\ UNCHANGED <<emitted, best>>
    /\ UNCHANGED <<pattern, stream, mstart, driver>>
    /\ UNCHANGED <<asmVars, libVars>>

NextMatch == CallMatch \/ PatternNext \/ FullmatchNext \/ FirstNext \/ LongestNext

SpecMatch == InitMatch /\ [][NextMatch]_vars

-----------------------------------------------------------------------------
(* search and findall of the matchers, and find_pattern *)

\* the most matches of a findall the model follows
MaxFound == 4
\* the most blocks of the graph handed to find_pattern, and their longest
\* instruction list
MaxFindBlocks == 2
MaxBlockLen == 2

\* MatcherFirst._match(stream, start), lines 44-49, as one call
FirstMatch(p, s, start) ==
    Bind(Resume(s, NewFrame(p, Pos(0)), NewCaptures),
         LAMBDA r : IF r.out.kind = "yield"
                    THEN MatchResult(0, r.out.val, to_dict(r.caps))
                    ELSE Outcome(IF r.out.kind = "error" THEN "error" ELSE "NoMatch"))

\* MatcherLongest._match, lines 80-88: the for loop and what follows it
RECURSIVE LongestLoop(_, _, _, _)
LongestLoop(s, f, c, bst) ==
    Bind(Resume(s, f, c),
         LAMBDA r :
            IF r.out.kind = "yield"
            THEN Bind(MatchResult(0, r.out.val, to_dict(r.caps)),
                      LAMBDA m :
                         IF bst.kind = "None" THEN LongestLoop(s, r.frame, r.caps, m)
                         ELSE IF ~Comparable(m.end, bst.end) THEN Outcome("error")
                         ELSE IF Greater(m.end, bst.end)
                         THEN LongestLoop(s, r.frame, r.caps, m)
                         ELSE LongestLoop(s, r.frame, r.caps, bst))
            ELSE IF r.out.kind = "error" THEN Outcome("error")
            ELSE IF bst.kind = "None" THEN Outcome("NoMatch")
            ELSE bst)

\* MatcherLongest._match(stream, start), lines 77-88, as one call
LongestMatch(p, s, start) == LongestLoop(s, NewFrame(p, Pos(0)), NewCaptures, Outcome("None"))

\* self._match(stream, start) of a matcher of class m
_match(m, p, s, start) ==
    IF m = "first" THEN FirstMatch(p, s, start) ELSE LongestMatch(p, s, start)

\* lines 67-73: one pass of findall's while loop.  "end": the loop test fails;
\* "yield": r is yielded, and start is what line 71 then assigns (bad: it is a
\* tuple, so that the next loop test raises TypeError); "skip": _NoMatch was
\* caught; "error": _match raised something else
FindallPass(m, p, s, start, over) ==
    IF start >= Len(s)
    THEN [kind |-> "end", match |-> Outcome("None"), start |-> start, bad |-> FALSE]
    ELSE Bind(_match(m, p, s, start),
              LAMBDA r :
                 IF r.kind = "MatchResult"
                 THEN [kind |-> "yield", match |-> r,
                       start |-> IF over THEN start + 1 ELSE r.end.pos,
                       bad |-> ~over /\ r.end.wrap > 0]
                 ELSE IF r.kind = "NoMatch"
                 THEN [kind |-> "skip", match |-> r, start |-> start + 1, bad |-> FALSE]
                 ELSE [kind |-> "error", match |-> r, start |-> start, bad |-> FALSE])

\* what findall yielded from the block in which it ran, and what the callback of
\* find_pattern answered (FALSE where there is no callback)
Found(b, r, stop) == [block |-> b, match |-> r, stop |-> stop]

\* the patterns handed to search, findall and find_pattern
FindPatterns ==
    {DirectMatch(TokA, "x"), DirectMatch(TokB, "None"),
     Concatenation(<<DirectMatch(TokA, "None"), DirectMatch(TokB, "x")>>),
     AnyOfLengths("None", <<1, 3>>), AnyOfLengths("None", <<3, 1>>),
     Slice(DirectMatch(TokA, "None"), NoneInt, NoneInt, NoneInt),
     Slice(DirectMatch(TokB, "None"), 1, NoneInt, NoneInt),
     StackEffectMatcher({0}, FALSE, "argc"),
     LoadBack("n"), EOS}

\* the instruction lists of the blocks of find_pattern's graph
BlockStreams == UNION {[1..n -> Tokens] : n \in 0..MaxBlockLen}

\* a matcher is about to run search or findall on a stream, or find_pattern is
\* about to walk a graph
InitFind ==
    /\ pattern \in FindPatterns
    /\ fun \in {"search", "findall", "find_pattern"}
    /\ fpc = "loop"
    /\ IF fun = "find_pattern"
       THEN /\ matcher = "longest"
            /\ overlapping = FALSE
            /\ \E n \in 1..MaxFindBlocks : fblocks \in [1..n -> BlockStreams]
       ELSE /\ matcher \in {"first", "longest"}
            /\ overlapping \in BOOLEAN
            /\ fun = "search" => ~overlapping
            /\ \E s \in Streams : fblocks = <<s>>
    /\ fidx = 1
    /\ scan = 0
    /\ found = <<>>
    /\ fret = Outcome("pending")
    /\ stream = <<>>
    /\ mstart = 0
    /\ driver = "None"
    /\ mpc = "None"
    /\ gen = NewFrame(PatBase, Pos(0))
    /\ captures = NewCaptures
    /\ best = Outcome("None")
    /\ returned = Outcome("pending")
    /\ emitted = <<>>
    /\ InitAsmOff
    /\ InitStoreIdle
    /\ InitTableIdle
    /\ InitLinIdle
    /\ InitTabIdle

\* search, lines 58-63: one pass of the while loop, or the end of it (the
\* function then returns None)
SearchPass ==
    /\ fun = "search"
    /\ fpc = "loop"
    /\ IF scan < Len(fblocks[1])
       THEN \E r \in {_match(matcher, pattern, fblocks[1], scan)} :
               IF r.kind = "NoMatch"
               THEN scan' = scan + 1 /\ UNCHANGED <<fpc, fret>>
               ELSE fpc' = "done" /\ fret' = r /\ UNCHANGED scan
       ELSE fpc' = "done" /\ fret' = Outcome("None") /\ UNCHANGED scan
    /\ UNCHANGED <<fun, matcher, overlapping, fblocks, fidx, found>>
    /\ UNCHANGED <<asmVars, matchVars, storeVars, tableVars, linear, linetab>>

\* findall, lines 66-73, pulled by a caller that takes every match: one pass of
\* the while loop
FindallStep ==
    /\ fun = "findall"
    /\ fpc = "loop"
    /\ Len(found) < MaxFound
    /\ \E q \in {FindallPass(matcher, pattern, fblocks[1], scan, overlapping)} :
          /\ scan' = q.start
          /\ found' = IF q.kind = "yield" THEN Append(found, Found(1, q.match, FALSE))
                      ELSE found
          /\ IF q.kind = "error" \/ q.bad
             THEN fpc' = "done" /\ fret' = Outcome("error")
             ELSE IF q.kind = "end"
             THEN fpc' = "done" /\ fret' = Outcome("exhausted")
             ELSE UNCHANGED <<fpc, fret>>
    /\ UNCHANGED <<fun, matcher, overlapping, fblocks, fidx>>
    /\ UNCHANGED <<asmVars, matchVars, storeVars, tableVars, linear, linetab>>

\* a walk that goes on after the callback has asked it to stop
recurseDeaf(kind, bad, stop) ==
    IF kind = "error" \/ bad THEN "error" ELSE "loop"

\* find_pattern, instruction_pattern.py lines 82-84, after one pass of findall's
\* loop: "stopped" when the callback returned true (line 84), "error" when
\* findall raised, or raises when asked for its next match, "loop" otherwise
recurse(kind, bad, stop) ==
    IF kind = "error" \/ (bad /\ ~stop) THEN "error"
    ELSE IF stop THEN "stopped"
    ELSE "loop"

\* find_pattern, instruction_pattern.py lines 82-84: one pass of findall's loop
\* over the instructions of the block, with the call of the callback on what it
\* yields; stop is what the callback returns
FindPatternStep ==
    /\ fun = "find_pattern"
    /\ fpc = "loop"
    /\ Len(found) < MaxFound
    /\ \E q \in {FindallPass(matcher, pattern, fblocks[fidx], scan, overlapping)} :
          /\ q.kind # "end"
          /\ scan' = q.start
          /\ \E stop \in BOOLEAN :
                /\ q.kind # "yield" => ~stop
                /\ found' = IF q.kind = "yield"
                            THEN Append(found, Found(fidx, q.match, stop))
                            ELSE found
                /\ \E way \in {recurse(q.kind, q.bad, stop)} :
                      IF way = "loop" THEN UNCHANGED <<fpc, fret>>
                      ELSE fpc' = "done" /\ fret' = Outcome(way)
    /\ UNCHANGED <<fun, matcher, overlapping, fblocks, fidx>>
    /\ UNCHANGED <<asmVars, matchVars, storeVars, tableVars, linear, linetab>>

\* find_pattern, lines 78-80: findall over a block has ended, recurse returns
\* None and the for loop goes on to the next block, or ends
FindPatternNextBlock ==
    /\ fun = "find_pattern"
    /\ fpc = "loop"
    /\ scan >= Len(fblocks[fidx])
    /\ IF fidx < Len(fblocks)
       THEN fidx' = fidx + 1 /\ scan' = 0 /\ UNCHANGED <<fpc, fret>>
       ELSE fpc' = "done" /\ fret' = Outcome("exhausted") /\ UNCHANGED <<fidx, scan>>
    /\ UNCHANGED <<fun, matcher, overlapping, fblocks, found>>
    /\ UNCHANGED <<asmVars, matchVars, storeVars, tableVars, linear, linetab>>

NextFind == SearchPass \/ FindallStep \/ FindPatternStep \/ FindPatternNextBlock

SpecFind == InitFind /\ [][NextFind]_vars

-----------------------------------------------------------------------------
(* A Captures object under the calls of a caller *)

\* the most calls of enter, and of calls in all, the model follows
MaxEnters == 3
MaxStoreCalls == 6

\* lines 126-127: ChainMap.update writes every item of r into the first map
extend(c, r) == [c EXCEPT !.maps[1] = r @@ @]

\* the names and the values a caller binds, and the mappings it merges
StoreNames == {"x", "y"}
StoreValues == {VInt(0), VInt(1)}
StoreDicts == {("x" :> VInt(1)) @@ ("y" :> VInt(1)), ("y" :> VInt(0))}

\* history: an enter() that no successful exit has undone: the key it returned,
\* to_dict() and the number of maps before it, and whether every call since has
\* been a set, a merge, an enter or a successful exit of the newest open key
Opened(key, c) ==
    [key |-> key, snap |-> to_dict(c), depth |-> Len(c.maps), clean |-> TRUE]
NoOpened == [key |-> 0, snap |-> EmptyMap, depth |-> 0, clean |-> FALSE]
\* history: the call made last (n calls so far): the key handed to exit, whether
\* it returned, the Captures before it and the newest Opened before it
LastOp(op, key, ok, before, top, n) ==
    [op |-> op, key |-> key, ok |-> ok, before |-> before, top |-> top, n |-> n]
NewestOpened == IF opened = <<>> THEN NoOpened ELSE opened[Len(opened)]
\* opened without the entries of key
Without(os, key) == SelectSeq(os, LAMBDA o : o.key # key)
Unclean(os) == [k \in DOMAIN os |-> [os[k] EXCEPT !.clean = FALSE]]

\* a caller has made a Captures
InitStore ==
    /\ store = NewCaptures
    /\ opened = <<>>
    /\ lastop = LastOp("new", 0, TRUE, NewCaptures, NoOpened, 0)
    /\ InitAsmOff
    /\ InitMatchIdle
    /\ InitFindIdle
    /\ InitTableIdle
    /\ InitLinIdle
    /\ InitTabIdle

\* lines 96-103
StoreEnter ==
    /\ lastop.n < MaxStoreCalls
    /\ store.made < MaxEnters
    /\ store' = enter(store)
    /\ opened' = Append(opened, Opened(KeyOf(store), store))
    /\ lastop' = LastOp("enter", KeyOf(store), TRUE, store, NewestOpened, lastop.n + 1)
    /\ UNCHANGED <<asmVars, matchVars, findVars, tableVars, linear, linetab>>

\* lines 105-111, with a key enter() has returned or with another object (0)
StoreExit ==
    /\ lastop.n < MaxStoreCalls
    /\ \E key \in 0..store.made :
          IF ExitOk(store, key)
          THEN /\ store' = exit(store, key)
               /\ opened' = Without(opened, key)
               /\ lastop' = LastOp("exit", key, TRUE, store, NewestOpened, lastop.n + 1)
          ELSE /\ store' = exitRaises(store, key)
               /\ opened' = Unclean(opened)
               /\ lastop' = LastOp("exit", key, FALSE, store, NewestOpened, lastop.n + 1)
    /\ UNCHANGED <<asmVars, matchVars, findVars, tableVars, linear, linetab>>

\* lines 117-118
StoreSet ==
    /\ lastop.n < MaxStoreCalls
    /\ \E name \in StoreNames, value \in StoreValues :
          store' = setitem(store, name, value)
    /\ lastop' = LastOp("set", 0, TRUE, store, NewestOpened, lastop.n + 1)
    /\ UNCHANGED opened
    /\ UNCHANGED <<asmVars, matchVars, findVars, tableVars, linear, linetab>>

\* lines 126-127
StoreExtend ==
    /\ lastop.n < MaxStoreCalls
    /\ \E r \in StoreDicts : store' = extend(store, r)
    /\ lastop' = LastOp("extend", 0, TRUE, store, NewestOpened, lastop.n + 1)
    /\ UNCHANGED opened
    /\ UNCHANGED <<asmVars, matchVars, findVars, tableVars, linear, linetab>>

NextStore == StoreEnter \/ StoreExit \/ StoreSet \/ StoreExtend

SpecStore == InitStore /\ [][NextStore]_vars

-----------------------------------------------------------------------------
(* CodeInfo.make_sure on the constants table, and the lookup of get_raw *)

\* the most calls the model follows, and the longest table from_code gives
MaxTableCalls == 3
MaxTable == 2

\* constants: 0, 1, False, True, 0.0 and 1.0; val is what == compares
ConstValues == [val : {0, 1}, type : {"int", "bool", "float"}]
NoValue == [val |-> NoneInt, type |-> "none"]

\* a table in which every call appends
make_sureAppending(l, v) ==
    [l |-> Append(l, v), index |-> Len(l)]

\* lines 151-155: value not in l, l.append(value), l.index(value); in and index
\* compare with ==; the index counts from 0
make_sure(l, v) ==
    LET l2 == IF IndexSet(l, v, FALSE) = {} THEN Append(l, v) ELSE l
    IN [l |-> l2, index |-> Min(IndexSet(l2, v, FALSE)) - 1]

\* history: the call made last (n calls so far): its argument, what it returned
\* (ok: it returned), the table before it, and the make_sure before it
LastCall(op, v, index, ok, before, prev, n) ==
    [op |-> op, value |-> v, index |-> index, ok |-> ok, before |-> before,
     prev |-> prev, n |-> n]
PrevCall(v, index, before) == [value |-> v, index |-> index, before |-> before]
NoPrev == PrevCall(NoValue, NoneInt, <<>>)

\* lines 112-117: co_consts as from_code has taken it from a code object
InitTable ==
    /\ \E n \in 0..MaxTable : table \in [1..n -> ConstValues]
    /\ lastcall = LastCall("new", NoValue, NoneInt, TRUE, <<>>, NoPrev, 0)
    /\ InitAsmOff
    /\ InitMatchIdle
    /\ InitFindIdle
    /\ InitStoreIdle
    /\ InitLinIdle
    /\ InitTabIdle

\* lines 151-155
MakeSure ==
    /\ lastcall.n < MaxTableCalls
    /\ \E v \in ConstValues :
          \E r \in {make_sure(table, v)} :
             /\ table' = r.l
             /\ lastcall' = LastCall("make_sure", v, r.index, TRUE, table,
                                     IF lastcall.op = "make_sure"
                                     THEN PrevCall(lastcall.value, lastcall.index, lastcall.before)
                                     ELSE NoPrev,
                                     lastcall.n + 1)
    /\ UNCHANGED <<asmVars, matchVars, findVars, storeVars, linear, linetab>>

\* lines 57-58: get_raw of an instruction LOAD_CONST v looks v up
GetRawConst ==
    /\ lastcall.n < MaxTableCalls
    /\ \E v \in ConstValues :
          \E a \in {ArgIndex(Instruction("LOAD_CONST", ArgConst(v.val, v.type)), table, 0, NoneInt)} :
             lastcall' = LastCall("get_raw", v, IF a.ok THEN a.arg_i ELSE NoneInt, a.ok, table,
                                  IF lastcall.op = "make_sure"
                                  THEN PrevCall(lastcall.value, lastcall.index, lastcall.before)
                                  ELSE NoPrev,
                                  lastcall.n + 1)
    /\ UNCHANGED table
    /\ UNCHANGED <<asmVars, matchVars, findVars, storeVars, linear, linetab>>

NextTable == MakeSure \/ GetRawConst

SpecTable == InitTable /\ [][NextTable]_vars

-----------------------------------------------------------------------------
(* FunctionBlock.as_basic_blocks called on graphs built by hand *)

\* the most blocks of such a graph, and the most calls the model follows
MaxLinBlocks == 3
MaxLinCalls == 2

\* an offset a fallthrough Label must not have
OddOffset == 1

\* a block holds one instruction, which tells it from the others, and its
\* fallthrough Label, which names a block of the graph or an id no block has
LinTargets(n) ==
    {NoLabel} \cup {BasicBlockTarget(tg, o) : tg \in 1..(n + 1), o \in {0, OddOffset}}
LinBlock(b, nt) ==
    BasicBlock(b, <<Instruction("CALL_FUNCTION", ArgInt(b))>>, NoInstruction, nt, 1)

\* the orders in which the dict blocks can hold the ids 1..n
Orders(n) == {o \in [1..n -> 1..n] : \A i, j \in 1..n : o[i] = o[j] => i = j}

\* history: what the last call returned and what the call before it returned
LinCall(r, calls, prev) ==
    [ok |-> r.ok, result |-> r.result, called |-> TRUE, calls |-> calls, prev |-> prev]

\* a FunctionBlock built by hand, before as_basic_blocks is called
InitLin ==
    /\ \E n \in 1..MaxLinBlocks :
          /\ \E nts \in [1..n -> LinTargets(n)] :
                blocks = [b \in 1..n |-> LinBlock(b, nts[b])]
          /\ order \in Orders(n)
          /\ entry \in 1..n
    /\ code = <<>>
    /\ co_consts = Consts
    /\ apc = "graph"
    /\ InitAsmIdle
    /\ InitMatchIdle
    /\ InitFindIdle
    /\ InitStoreIdle
    /\ InitTableIdle
    /\ InitLinIdle
    /\ InitTabIdle

\* lines 232-259: one call
Linearize ==
    /\ linear.calls < MaxLinCalls
    /\ \E r \in {as_basic_blocks(blocks, order, entry)} :
          linear' = LinCall(r, linear.calls + 1, [ok |-> linear.ok, result |-> linear.result])
    /\ UNCHANGED <<asmVars, matchVars, findVars, storeVars, tableVars, linetab>>

\* as_basic_blocks is called, and assemble is called and gets as far as its call
\* of get_instructions
NextLin == Linearize \/ AssembleStart

SpecLin == InitLin /\ [][NextLin]_vars

-----------------------------------------------------------------------------
(* _to_linetab called on recorded (byte offset, line) pairs *)

\* the most pairs recorded
MaxLines == 3

\* lines one apart, more than 127 apart and more than 255 apart; and the bytes
\* from one recorded offset to the next: one unit, and more than 255 bytes
LineChoices == {1, 2, UnitHalf + 3, 2 * UnitHalf + 4}
GapChoices == {2, UnitMax + 1, 2 * UnitMax, 2 * UnitMax + 2}

RECURSIVE SumTo(_, _)
SumTo(gs, k) == IF k = 0 THEN 0 ELSE gs[k] + SumTo(gs, k - 1)

\* the offsets recorded at gaps gs from offset 0 on, with the lines ls
OffsetsOf(ls, gs) ==
    [o \in {SumTo(gs, k - 1) : k \in DOMAIN ls} |->
        ls[CHOOSE k \in DOMAIN ls : SumTo(gs, k - 1) = o]]

\* assemble is about to call _to_linetab(line_offsets, len(raw_ins) * 2)
InitTab ==
    /\ \E n \in 1..MaxLines :
          \E ls \in [1..n -> LineChoices], gs \in [1..n -> GapChoices] :
             linetab = [offsets |-> OffsetsOf(ls, gs), end |-> SumTo(gs, n),
                        called |-> FALSE, ok |-> FALSE, startline |-> 0, out |-> <<>>]
    /\ InitAsmOff
    /\ InitMatchIdle
    /\ InitFindIdle
    /\ InitStoreIdle
    /\ InitTableIdle
    /\ InitLinIdle

\* line 303
ToLinetab ==
    /\ ~linetab.called
    /\ \E r \in {_to_linetab(linetab.offsets, linetab.end)} :
          linetab' = TabCall(linetab.offsets, linetab.end, r)
    /\ UNCHANGED <<asmVars, matchVars, findVars, storeVars, tableVars, linear>>

SpecTab == InitTab /\ [][ToLinetab]_vars

FairAsm == WF_vars(NextAsm)

SpecAsmFair == SpecAsm /\ FairAsm

-----------------------------------------------------------------------------
(* Properties of the assembler *)

\* the bytes of the stream handed to nop, per unit the opcode and the operand byte
CodeBytes == [k \in DOMAIN code |-> <<code[k].opcode, code[k].arg>>]

\* the 0-based unit index of the opcode unit of the instruction at index j of ins,
\* read off the emitted bytes: the (j + 1)-th unit that is no EXTENDED_ARG
OpUnit(bytes, j) ==
    (CHOOSE k \in DOMAIN bytes :
        /\ bytes[k][1] # "EXTENDED_ARG"
        /\ Cardinality({m \in 1..k : bytes[m][1] # "EXTENDED_ARG"}) = j + 1) - 1

\* the 0-based unit index at which the instruction at index j starts: its first
\* EXTENDED_ARG prefix if it has one
StartUnit(bytes, j) == IF j = 0 THEN 0 ELSE OpUnit(bytes, j - 1) + 1

\* the operand the interpreter decodes at the 0-based unit index u: the byte of the
\* unit and, more significant, those of the EXTENDED_ARG units before it
RECURSIVE Operand(_, _)
Operand(bytes, u) ==
    bytes[u + 1][2] + (IF u > 0 /\ bytes[u][1] = "EXTENDED_ARG"
                       THEN Operand(bytes, u - 1) * (UnitMax + 1) ELSE 0)

\* the jump at instruction index i designates its target in the emitted bytes
Designates(bytes, i) ==
    LET u == OpUnit(bytes, i)
        t == StartUnit(bytes, jumps[i])
    IN IF ins[i + 1].opcode \in hasjabs
       THEN Operand(bytes, u) = t
       ELSE Operand(bytes, u) = t - (u + 1)

\* some Label of the graph names a block id the graph does not hold
DanglingJump(bs) ==
    \E b \in DOMAIN bs :
        /\ bs[b].jump_instruction # NoInstruction
        /\ bs[b].jump_instruction.arg.kind = "label"
        /\ bs[b].jump_instruction.arg.target_id \notin DOMAIN bs
DanglingNext(bs) ==
    \E b \in DOMAIN bs :
        /\ bs[b].next_target # NoLabel
        /\ bs[b].next_target.target_id \notin DOMAIN bs

\* C1: nop leaves the code bytes unchanged: when disassemble and then assemble
\* have run on a well-formed stream, the bytes built are the bytes of the stream.
C1_RoundTrip == apc = "done" /\ code # <<>> => co_code = CodeBytes

\* C2: when assemble has finished, the operand of every jump whose target
\* instruction exists, EXTENDED_ARG prefixes included, is the unit index at which
\* the target starts (absolute jump) or that index minus the index of the unit
\* after the jump's opcode unit (relative jump).
C2_SelfConsistent ==
    apc = "done" /\ code = <<>> =>
        \A i \in DOMAIN jumps : jumps[i] < Len(ins) => Designates(co_code, i)

\* C3: a graph in which a jump Label or a fallthrough Label names a block id that
\* is not in the graph never gets past the structural checks: assemble ends in an
\* error and builds no code.
C3_DanglingFails ==
    DanglingJump(blocks) \/ DanglingNext(blocks) =>
        apc \in {"graph", "error"} /\ co_code = <<>>

\* C3 witness: assemble has failed on a graph whose only dangling Label is a jump's
C3_DanglingJumpFailed ==
    apc = "error" /\ DanglingJump(blocks) /\ ~DanglingNext(blocks)

\* C4: the loop of assemble terminates: every run of assemble ends in an error or
\* leaves the loop after a pass that did not change the target map.
C4_Terminates ==
    <>(apc = "error" \/ (apc = "done" /\ old_hash = HashOf(actual_targets)))

\* C4 witness: the loop was left after a pass that changed nothing, and it took
\* more passes than the two a graph without EXTENDED_ARG prefixes takes
C4_LaterFixedPoint ==
    apc = "done" /\ passes > 2 /\ old_hash = HashOf(actual_targets)

-----------------------------------------------------------------------------
(* Properties of the pattern engine *)

\* the names a pattern can bind
RECURSIVE CaptureNames(_)
CaptureNames(p) ==
    (IF p.capture # "None" THEN {p.capture} ELSE {})
    \cup (IF p.capture_arg # "missing" THEN {p.capture_arg} ELSE {})
    \cup UNION {CaptureNames(p.patterns[k]) : k \in DOMAIN p.patterns}

\* the frame of a generator and the frames of the generators it holds
RECURSIVE Frames(_)
Frames(f) == {f} \cup UNION {Frames(f.iter_stack[k]) : k \in DOMAIN f.iter_stack}

\* the maps a scope sees: the child map enter() made when it handed out key, and
\* the maps below it; <<>> when no open scope has that key
ScopeOf(c, key) ==
    LET I == {i \in DOMAIN c.keys : c.keys[i] = key}
    IN IF I = {} THEN <<>>
       ELSE LET i == CHOOSE k \in I : TRUE
            IN IF i >= Len(c.maps) THEN <<>>
               ELSE SubSeq(c.maps, Len(c.maps) - i, Len(c.maps))

\* in the scope of the branch the Alternation frame f is running, a name the
\* branch does not bind is bound as it was when the alternation started
RolledBack(f) ==
    LET scope == ScopeOf(captures, f.key)
    IN /\ f.idx \in DOMAIN f.pat.patterns
       /\ scope # <<>>
       /\ \A n \in CaptureNames(pattern) \ CaptureNames(f.pat.patterns[f.idx]) :
             /\ Bound(scope, n) <=> n \in DOMAIN f.entry
             /\ Bound(scope, n) => Lookup(scope, n) = f.entry[n]

\* C5: while a branch of an Alternation runs, every name that the branch does not
\* bind itself is bound exactly as it was when the alternation started (so a name
\* bound only by an earlier branch is unbound, and a name bound before has its
\* value of then); and when a match over a pattern with an alternation is
\* exhausted, nothing is bound any more.
C5_BranchesRolledBack ==
    /\ returned.kind # "error" =>
          \A f \in Frames(gen) :
              f.pat.kind = "Alternation" /\ f.pc = "yielded" => RolledBack(f)
    /\ pattern \in AltPatterns /\ driver \in {"match", "fullmatch", "first"}
           /\ returned.kind \in {"exhausted", "None", "NoMatch"} =>
          to_dict(captures) = EmptyMap

\* C5 witness: the second or a later branch of an alternation has matched, x was
\* bound at an emission of an earlier branch and is unbound now
C5_EarlierBranchUnbound ==
    /\ driver = "match"
    /\ gen.pat.kind = "Alternation"
    /\ gen.pc = "yielded"
    /\ gen.idx >= 2
    /\ \E k \in DOMAIN emitted : "x" \in DOMAIN emitted[k].captures
    /\ "x" \notin DOMAIN to_dict(captures)

\* the number of consecutive tokens t in s from the 0-based index start on
RECURSIVE RunLength(_, _, _)
RunLength(s, t, start) ==
    IF start < Len(s) /\ At(s, start) = t THEN 1 + RunLength(s, t, start + 1) ELSE 0

\* the repetition counts of pattern p, a Repeat, that n tokens allow
Counts(p, n) ==
    {c \in 0..n : /\ p.min <= c
                  /\ p.max = NoneInt \/ c <= p.max
                  /\ (c - p.min) % p.step = 0}

\* C6: a Repeat of a pattern that matches the one token TokA, over a stream with
\* n consecutive TokA from start, emits exactly once for every count c <= n with
\* min <= c <= max and (c - min) % step = 0, at start + c, and nothing else.
C6_ExactCounts ==
    driver = "match" /\ mpc = "done" /\ pattern \in RepeatPatterns =>
        LET cs == Counts(pattern, RunLength(stream, TokA, mstart))
        IN /\ returned.kind = "exhausted"
           /\ Len(emitted) = Cardinality(cs)
           /\ {emitted[k].end : k \in DOMAIN emitted} = {Pos(mstart + c) : c \in cs}

\* C7: the first emission of a Repeat with min = 0 is the start index, an int as
\* every other end; it is the only emission when the base does not match at
\* start; and fullmatch can compare it with len(stream).
C7_FirstEmissionIsStart ==
    pattern \in RepeatPatterns /\ pattern.min = 0 =>
        /\ driver = "match" /\ emitted # <<>> => emitted[1].end = Pos(mstart)
        /\ driver = "match" /\ mpc = "done" /\ RunLength(stream, TokA, mstart) = 0 =>
              Len(emitted) = 1
        /\ driver = "fullmatch" => returned.kind # "error"

\* the patterns that capture the operand of a LOAD_FAST as n and then repeat
\* LOAD_FAST with the operand Back(n)
CaptureThenBack ==
    {Concatenation(<<fixed_opcode("LOAD_FAST", Missing, "n"),
                     Slice(LoadBack("n"), mn, NoneInt, NoneInt)>>) : mn \in 0..1}

\* every token of s is a LOAD_FAST with the operand of the first
SameLoads(s) ==
    /\ s # <<>>
    /\ \A k \in DOMAIN s : s[k].opcode = "LOAD_FAST" /\ s[k] = s[1]

\* C8: a pattern that captures the operand of a token as n and then repeats
\* Back(n) full-matches a stream of identical tokens, reporting n as their
\* operand, and does not full-match any other stream.
C8_BackFullMatch ==
    driver = "fullmatch" /\ mpc = "done" /\ pattern \in CaptureThenBack =>
        IF SameLoads(stream) /\ Len(stream) > pattern.patterns[2].min
        THEN /\ returned.kind = "MatchResult"
             /\ "n" \in DOMAIN returned.captures
             /\ returned.captures["n"] = ArgVal(stream[1])
        ELSE returned.kind = "None"

\* the index of the emission with the greatest end, the earliest of them
Longest(E) ==
    Min({k \in DOMAIN E : \A j \in DOMAIN E : E[j].end.pos <= E[k].end.pos})

\* C9: _match(stream, start) of the longest driver returns the emission with the
\* greatest end among the emissions of the pattern started at start, the earliest
\* on ties; that of the first driver returns the first emission; both raise
\* _NoMatch when there is none.
C9_DriversChoose ==
    mpc = "done" /\ driver \in {"first", "longest"} =>
        LET e == Enumeration(pattern, stream, mstart)
            E == e.emissions
            k == IF driver = "first" THEN 1 ELSE Longest(E)
        IN e.kind = "stop" =>
              IF E = <<>> THEN returned.kind = "NoMatch"
              ELSE /\ returned.kind = "MatchResult"
                   /\ returned.end = E[k].end
                   /\ returned.captures = E[k].captures

\* the sum of the stack effects of the tokens of s at the 0-based indexes a..i
RECURSIVE DeltaSum(_, _, _)
DeltaSum(s, a, i) == IF i < a THEN 0 ELSE DeltaSum(s, a, i - 1) + stack_effect(At(s, i))

\* the indexes from start on at which the summed stack effect is in the target
Hits(p, s, start) == {i \in start..(Len(s) - 1) : DeltaSum(s, start, i) \in p.target}

\* C10: a StackEffectMatcher started at mstart emits i + 1 only for indexes
\* i >= mstart at which the stack effects of the tokens mstart..i sum up to a value
\* in the target, in increasing order, and when it is exhausted it has emitted
\* i + 1 for every such i.
C10_StackScan ==
    driver = "match" /\ pattern.kind = "StackEffectMatcher" =>
        /\ \A k \in DOMAIN emitted :
              /\ emitted[k].end.wrap = 0
              /\ emitted[k].end.pos - 1 \in Hits(pattern, stream, mstart)
        /\ \A k \in 1..(Len(emitted) - 1) : emitted[k].end.pos < emitted[k + 1].end.pos
        /\ mpc = "done" =>
              /\ returned.kind = "exhausted"
              /\ {emitted[k].end.pos : k \in DOMAIN emitted}
                     = {i + 1 : i \in Hits(pattern, stream, mstart)}

\* C10 witness: over the stack effects +1, +1, -1, -1 from 0 with the target {0}
\* the scan has ended and its only emission is 4
C10_OnlyAtFour ==
    /\ driver = "match"
    /\ pattern = StackEffectMatcher({0}, FALSE, "argc")
    /\ stream = <<TokA, TokA, TokP, TokP>>
    /\ mstart = 0
    /\ mpc = "done"
    /\ returned.kind = "exhausted"
    /\ Len(emitted) = 1
    /\ emitted[1].end = Pos(4)

\* the match the claims expect of a matcher of class m at the start s: of the
\* emissions of the pattern started at s, the first, or the one with the greatest
\* end; Outcome("NoMatch") when there is none
MatchAt(m, p, st, s) ==
    LET E == Emissions(p, st, s)
    IN IF E = <<>> THEN Outcome("NoMatch")
       ELSE LET k == IF m = "first" THEN 1 ELSE Longest(E)
            IN MatchResult(s, E[k].end, E[k].captures)

\* the starts of st at which the pattern has an emission
MatchingStarts(p, st) == {s \in 0..(Len(st) - 1) : Emissions(p, st, s) # <<>>}

\* the pattern raises nothing, whatever start of st it is started at
NeverRaises(p, st) == \A s \in 0..(Len(st) - 1) : Enumeration(p, st, s).kind = "stop"

\* C11: search returns the match at the smallest start at which the pattern has
\* an emission, with that start as MatchResult.start, and None only when there is
\* no such start.
C11_SearchSmallestStart ==
    fun = "search" /\ fpc = "done" /\ NeverRaises(pattern, fblocks[1]) =>
        LET S == MatchingStarts(pattern, fblocks[1])
        IN IF S = {} THEN fret.kind = "None"
           ELSE fret = MatchAt(matcher, pattern, fblocks[1], Min(S))

\* C12: of the matches findall yields, each starts at or after the end of the
\* one before it (overlapping: after the start of the one before it), and none
\* is yielded twice.
C12_FindallAdvances ==
    fun = "findall" =>
        /\ \A k \in 2..Len(found) :
              IF overlapping
              THEN found[k].match.start > found[k - 1].match.start
              ELSE found[k].match.start >= found[k - 1].match.end.pos
        /\ \A j, k \in DOMAIN found : j < k => found[j].match # found[k].match

\* C13: an exit that returns was given the key of the newest enter not yet undone
\* by an exit; an exit that raises leaves the maps as they were.
C13_ExitDiscipline ==
    lastop.op = "exit" =>
        /\ lastop.ok => lastop.top.key = lastop.key
        /\ ~lastop.ok => store.maps = lastop.before.maps

\* C14: when exit(k) returns, k being the key of the newest open enter and every
\* call since that enter a set, a merge or part of a balanced pair of enter and
\* exit, then to_dict() and the number of maps are as they were before the enter.
C14_ScopeRestored ==
    lastop.op = "exit" /\ lastop.ok /\ lastop.top.key = lastop.key /\ lastop.top.clean =>
        /\ to_dict(store) = lastop.top.snap
        /\ Len(store.maps) = lastop.top.depth

\* C14 witness: such an exit has returned; inside the scope a name bound before
\* had got another value and a name not bound before had been bound
C14_ShadowedAndNew ==
    /\ lastop.op = "exit" /\ lastop.ok /\ lastop.top.key = lastop.key /\ lastop.top.clean
    /\ \E n \in DOMAIN lastop.top.snap :
          getitem(lastop.before, n) # lastop.top.snap[n]
    /\ \E n \in StoreNames : n \notin DOMAIN lastop.top.snap /\ Bound(lastop.before.maps, n)
    /\ to_dict(store) = lastop.top.snap

\* the first n matches findall yields once its loop variable is start
RECURSIVE FindallFrom(_, _, _, _, _, _)
FindallFrom(m, p, s, start, over, n) ==
    IF n = 0 THEN <<>>
    ELSE Bind(FindallPass(m, p, s, start, over),
              LAMBDA q :
                 IF q.kind \in {"end", "error"} THEN <<>>
                 ELSE IF q.kind = "skip" THEN FindallFrom(m, p, s, q.start, over, n)
                 ELSE IF q.bad THEN <<q.match>>
                 ELSE <<q.match>> \o FindallFrom(m, p, s, q.start, over, n - 1))

\* the matches the callback has been called with for block b, in the order of
\* the calls
CallsFor(b) ==
    LET C == SelectSeq(found, LAMBDA f : f.block = b)
    IN [k \in DOMAIN C |-> C[k].match]
IsPrefix(a, b) == Len(a) <= Len(b) /\ a = SubSeq(b, 1, Len(a))

\* C15: find_pattern calls the callback block by block in the order of the
\* mapping, for a block with the matches the longest driver's findall yields on
\* its instructions, once each and in that order (all of them for a block the
\* walk has left), and a call that returns true is the last call and ends the
\* walk.
C15_WalkInOrder ==
    fun = "find_pattern" =>
        /\ \A k \in 2..Len(found) : found[k - 1].block <= found[k].block
        /\ \A k \in 1..(Len(found) - 1) : ~found[k].stop
        /\ found # <<>> /\ found[Len(found)].stop =>
              fpc = "done" /\ fret.kind = "stopped"
        /\ \A b \in DOMAIN fblocks :
              LET F == FindallFrom("longest", pattern, fblocks[b], 0, FALSE, MaxFound + 1)
              IN IF b < fidx \/ fret.kind = "exhausted" THEN CallsFor(b) = F
                 ELSE IF b = fidx THEN IsPrefix(CallsFor(b), F)
                 ELSE CallsFor(b) = <<>>

\* C15 witness: the second call of the callback, in the first block, returned
\* true; the walk has ended without a call for the second block, in which
\* findall has a match to yield
C15_StoppedBeforeSecondBlock ==
    /\ fun = "find_pattern" /\ fpc = "done" /\ fret.kind = "stopped"
    /\ Len(found) = 2 /\ found[2].stop /\ found[2].block = 1
    /\ Len(fblocks) = 2
    /\ FindallFrom("longest", pattern, fblocks[2], 0, FALSE, 1) # <<>>

\* C16: once a caller's loop over pattern.match(stream, start, captures) has
\* pulled the emissions to exhaustion, the store has the number of maps and the
\* bindings it had before the call (one map, no binding, no key left).
C16_StoreRestored ==
    driver = "match" /\ mpc = "done" /\ returned.kind = "exhausted" =>
        /\ Len(captures.maps) = 1
        /\ to_dict(captures) = EmptyMap
        /\ captures.keys = <<>>

\* the entries of l that == v
EqualEntries(l, v) == {k \in DOMAIN l : l[k].val = v.val}

\* C17: make_sure returns the index of an entry equal to the value; it appends
\* the value only when no entry was equal to it, and then nothing else; it never
\* adds to the entries equal to a value already there and never moves an entry;
\* called again with the same value it returns the same index and leaves the
\* table as it is.
C17_EnsureIndex ==
    lastcall.op = "make_sure" =>
        /\ lastcall.index \in 0..(Len(table) - 1)
        /\ table[lastcall.index + 1].val = lastcall.value.val
        /\ IF EqualEntries(lastcall.before, lastcall.value) = {}
           THEN table = Append(lastcall.before, lastcall.value)
           ELSE table = lastcall.before
        /\ \A v \in ConstValues :
              EqualEntries(lastcall.before, v) # {} =>
                  EqualEntries(table, v) = EqualEntries(lastcall.before, v)
        /\ IsPrefix(lastcall.before, table)
        /\ lastcall.prev.value = lastcall.value =>
              lastcall.index = lastcall.prev.index /\ table = lastcall.before

\* C17 witness: make_sure has been called twice in a row with a value that the
\* first call appended behind another entry
C17_AppendedThenFound ==
    /\ lastcall.op = "make_sure"
    /\ lastcall.prev.value = lastcall.value
    /\ Len(lastcall.prev.before) < Len(lastcall.before)
    /\ lastcall.index > 0
    /\ table = lastcall.before

\* C18: the entry whose index make_sure returns on the constants table has the
\* value and the kind of the constant, and get_raw of an instruction carrying
\* the constant just ensured finds an entry of its value and its kind.
C18_KindDistinguished ==
    /\ lastcall.op = "make_sure" => table[lastcall.index + 1] = lastcall.value
    /\ lastcall.op = "get_raw" /\ lastcall.prev.value = lastcall.value =>
          lastcall.ok /\ table[lastcall.index + 1] = lastcall.value

\* the fallthrough Labels of a graph: the blocks that have one, and the id it names
Falls(bs) == {b \in DOMAIN bs : bs[b].next_target # NoLabel}
\* the block reached from b over k fallthroughs, 0 when there is none
RECURSIVE Follow(_, _, _)
Follow(bs, b, k) ==
    IF k = 0 THEN b
    ELSE IF b \notin Falls(bs) THEN 0
    ELSE Follow(bs, bs[b].next_target.target_id, k - 1)
DuplicateTarget(bs) ==
    \E a, b \in Falls(bs) :
        a # b /\ bs[a].next_target.target_id = bs[b].next_target.target_id
Cyclic(bs) ==
    \E b \in DOMAIN bs : \E k \in 1..Cardinality(DOMAIN bs) : Follow(bs, b, k) = b
\* every Label is a BasicBlockTarget with offset 0 that names a block, no two
\* name the same block, and no block is reached from itself
WellFormedLabels(bs) ==
    /\ \A b \in Falls(bs) :
          /\ bs[b].next_target.kind = "label"
          /\ bs[b].next_target.offset = 0
          /\ bs[b].next_target.target_id \in DOMAIN bs
    /\ ~DuplicateTarget(bs)
    /\ ~Cyclic(bs)

\* the runs of a graph with well formed Labels: a run starts at a block no
\* Label names and follows the Labels
RunHeads(bs) ==
    {b \in DOMAIN bs : \A a \in Falls(bs) : bs[a].next_target.target_id # b}
RECURSIVE RunFrom(_, _)
RunFrom(bs, b) ==
    IF b \notin Falls(bs) THEN <<b>>
    ELSE <<b>> \o RunFrom(bs, bs[b].next_target.target_id)
InRun(run, b) == \E k \in DOMAIN run : run[k] = b
HeadOf(bs, b) == CHOOSE h \in RunHeads(bs) : InRun(RunFrom(bs, h), b)
RECURSIVE RunsAscending(_, _)
RunsAscending(bs, H) ==
    IF H = {} THEN <<>>
    ELSE RunFrom(bs, Min(H)) \o RunsAscending(bs, H \ {Min(H)})
EntryRunFirst(bs, ent) ==
    RunFrom(bs, HeadOf(bs, ent)) \o RunsAscending(bs, RunHeads(bs) \ {HeadOf(bs, ent)})

\* C19: on a graph whose fallthrough Labels are well formed as_basic_blocks
\* returns the run that holds the entry block, then the other runs by ascending
\* id of their first block, and a second call returns what the first returned.
C19_EntryRunFirst ==
    linear.called /\ WellFormedLabels(blocks) =>
        /\ linear.ok
        /\ linear.result = EntryRunFirst(blocks, entry)
        /\ linear.calls > 1 => linear.prev = [ok |-> linear.ok, result |-> linear.result]

\* C20: when two Labels name the same block, or a block is reached from itself,
\* as_basic_blocks raises; an order it returns holds every block once and has
\* after every block with a Label the block the Label names.
C20_NoBrokenOrder ==
    linear.called =>
        /\ DuplicateTarget(blocks) \/ Cyclic(blocks) => ~linear.ok
        /\ linear.ok =>
              /\ Len(linear.result) = Cardinality(DOMAIN blocks)
              /\ \A b \in DOMAIN blocks : InRun(linear.result, b)
              /\ \A k \in DOMAIN linear.result :
                    linear.result[k] \in Falls(blocks) =>
                        /\ k < Len(linear.result)
                        /\ linear.result[k + 1] = blocks[linear.result[k]].next_target.target_id

\* C20 witness: as_basic_blocks has raised on a graph of three blocks in which
\* two blocks fall through to each other and no two Labels name the same block
C20_CycleRaised ==
    /\ linear.called /\ ~linear.ok
    /\ Cardinality(DOMAIN blocks) = 3
    /\ ~DuplicateTarget(blocks)
    /\ \E a, b \in DOMAIN blocks : a # b /\ Follow(blocks, a, 1) = b /\ Follow(blocks, b, 1) = a
    /\ \A b \in Falls(blocks) :
          blocks[b].next_target.offset = 0 /\ blocks[b].next_target.target_id \in DOMAIN blocks

\* a generator pulled until it stops or raises: its emissions in order, each with
\* the Captures at the time
RECURSIVE PullCaps(_, _, _, _)
PullCaps(s, f, c, acc) ==
    Bind(Resume(s, f, c),
         LAMBDA r : IF r.out.kind = "yield"
                    THEN PullCaps(s, r.frame, r.caps,
                                  Append(acc, [end |-> r.out.val, caps |-> r.caps]))
                    ELSE acc)

\* the recursive definition of a concatenation: for every emission of the first
\* step, in order, every chain of the later steps started at it, each step in a
\* scope of its own
RECURSIVE ConcatRef(_, _, _, _)
RECURSIVE ChainsOver(_, _, _, _)
ConcatRef(ps, s, start, c) ==
    IF ps = <<>> THEN <<[end |-> start, captures |-> to_dict(c)]>>
    ELSE ChainsOver(Tail(ps), s, PullCaps(s, NewFrame(Head(ps), start), enter(c), <<>>), 1)
ChainsOver(ps, s, es, k) ==
    IF k > Len(es) THEN <<>>
    ELSE ConcatRef(ps, s, es[k].end, es[k].caps) \o ChainsOver(ps, s, es, k + 1)

\* C21: the emissions of a Concatenation pulled by a caller are, in order, end
\* and bindings, those of the recursive definition: a prefix of them while the
\* caller pulls, all of them once the generator is exhausted.  (An exhausted
\* later step whose scope stayed open would leave its bindings in the next
\* emission.)
C21_ConcatenationChains ==
    driver = "match" /\ pattern.kind = "Concatenation" /\ mpc # "call" =>
        LET R == ConcatRef(pattern.patterns, stream, Pos(mstart), NewCaptures)
        IN /\ IsPrefix(emitted, R)
           /\ returned.kind = "exhausted" => emitted = R

\* C21 witness: both steps have two emissions; the chains of the first step's
\* first emission (2) came before those of its second (1)
C21_DepthFirst ==
    /\ driver = "match" /\ pattern.kind = "Concatenation" /\ returned.kind = "exhausted"
    /\ mstart = 0
    /\ Len(emitted) = 4
    /\ [k \in 1..4 |-> emitted[k].end] = <<Pos(3), Pos(4), Pos(2), Pos(3)>>
    /\ emitted[3].captures = ("x" :> VSeq(SubSeq(stream, 1, 1))) @@ ("y" :> VSeq(SubSeq(stream, 2, 2)))

\* C22: a pass of the loop of assemble leaves no branch target with a smaller
\* offset than it had before the pass (before the first pass the map holds the
\* instruction indexes).
C22_OffsetsMonotone ==
    [][\A o \in DOMAIN actual_targets :
          o \in DOMAIN actual_targets' /\ actual_targets'[o] >= actual_targets[o]]_vars

\* C22 witness: a second pass has run and has moved a target forward from where
\* the first pass had put it (old_hash is taken from the map before the pass)
C22_MovedInSecondPass ==
    /\ passes >= 2
    /\ old_hash # HashOf(actual_targets)
    /\ \E o \in DOMAIN actual_targets :
          old_hash = HashOf([actual_targets EXCEPT ![o] = @ - 1])

\* the table read back: entry k covers the bytes from the sum of the byte deltas
\* before it up to that sum plus its own, at the line startline plus the line
\* deltas up to it, each read as a signed byte
Signed(b) == IF b > UnitHalf THEN b - (UnitMax + 1) ELSE b
RECURSIVE BytesTo(_, _)
BytesTo(out, k) == IF k = 0 THEN 0 ELSE out[k][1] + BytesTo(out, k - 1)
RECURSIVE LinesTo(_, _)
LinesTo(out, k) == IF k = 0 THEN 0 ELSE Signed(out[k][2]) + LinesTo(out, k - 1)
\* the lines the table gives the byte b (one line, when the table is sound)
LinesAt(out, startline, b) ==
    {startline + LinesTo(out, k) :
        k \in {j \in DOMAIN out : BytesTo(out, j - 1) <= b /\ b < BytesTo(out, j)}}
\* the end of the byte range recorded at offset o
RangeEnd(offsets, end, o) == Min({p \in DOMAIN offsets \cup {end} : p > o})

\* C23: _to_linetab returns, every value of the table is in 0..255, the byte
\* deltas sum to the end offset, and the first and the last byte of every
\* recorded range read back as the recorded line.
C23_LinetabDecodes ==
    linetab.called /\ LinetabOk(linetab.offsets) =>
        /\ linetab.ok
        /\ \A k \in DOMAIN linetab.out :
              linetab.out[k][1] \in 0..UnitMax /\ linetab.out[k][2] \in 0..UnitMax
        /\ BytesTo(linetab.out, Len(linetab.out)) = linetab.end
        /\ \A o \in DOMAIN linetab.offsets :
              \A b \in {o, RangeEnd(linetab.offsets, linetab.end, o) - 1} :
                 LinesAt(linetab.out, linetab.startline, b) = {linetab.offsets[o]}

\* the units a block of a disassembled graph holds, and the unit of the code at
\* which the block at place k of the order starts
UnitsOf(b) == Len(b.instructions) + (IF b.jump_instruction = NoInstruction THEN 0 ELSE 1)
RECURSIVE FirstUnit(_, _, _)
FirstUnit(bs, ord, k) ==
    IF k = 1 THEN 1 ELSE FirstUnit(bs, ord, k - 1) + UnitsOf(bs[ord[k - 1]])
PlaceOf(ord, b) == CHOOSE k \in DOMAIN ord : ord[k] = b
\* the instruction that closes a block
Closing(b) ==
    IF b.jump_instruction # NoInstruction THEN b.jump_instruction
    ELSE b.instructions[Len(b.instructions)]

\* C24: in the graph disassemble returns, no instruction of an instruction list
\* is a branch or carries a Label; a jump_instruction is a branch whose Label
\* names a block of the graph and, by its offset, the unit of that block the
\* jump went to in the code; a block closed by an instruction without successor
\* has no fallthrough Label, every other block but the last has the Label
\* (next block, 0).
C24_DisassembledGraph ==
    apc \in {"graph", "loop", "done", "error"} /\ code # <<>> /\ blocks # EmptyMap =>
        \A k \in DOMAIN order :
           LET b == blocks[order[k]]
           IN /\ \A n \in DOMAIN b.instructions :
                    ~is_jump(b.instructions[n]) /\ b.instructions[n].arg.kind # "label"
              /\ UnitsOf(b) > 0
              /\ b.jump_instruction # NoInstruction =>
                    /\ is_jump(b.jump_instruction)
                    /\ b.jump_instruction.arg.kind = "label"
                    /\ b.jump_instruction.arg.target_id \in DOMAIN blocks
                    /\ LET l == b.jump_instruction.arg
                           tb == blocks[l.target_id]
                           from == FirstUnit(blocks, order, k) + Len(b.instructions)
                       IN /\ l.offset \in 0..(UnitsOf(tb) - 1)
                          /\ RawTarget(code, from) \div 2 + 1 =
                                FirstUnit(blocks, order, PlaceOf(order, l.target_id)) + l.offset
              /\ IF no_next(Closing(b)) THEN b.next_target = NoLabel
                 ELSE k < Len(order) => b.next_target = BasicBlockTarget(order[k + 1], 0)

\* C24 witness: a graph with a jump into the middle of a block that is not the
\* first, and with a block that falls through
C24_MidBlockTarget ==
    /\ apc = "graph" /\ code # <<>>
    /\ \E b \in DOMAIN blocks :
          /\ blocks[b].jump_instruction # NoInstruction
          /\ blocks[b].jump_instruction.arg.target_id > 1
          /\ blocks[b].jump_instruction.arg.offset > 0
    /\ \E b \in DOMAIN blocks : blocks[b].next_target # NoLabel

\* C25: a Lookahead pulled to exhaustion has emitted its start once when its
\* inner pattern has an emission at the start, and nothing when it has none.
C25_LookaheadOnce ==
    /\ driver = "match" /\ pattern.kind = "Lookahead" /\ returned.kind = "exhausted"
    /\ Enumeration(pattern.patterns[1], stream, mstart).kind = "stop"
    => [k \in DOMAIN emitted |-> emitted[k].end] =
          IF Emissions(pattern.patterns[1], stream, mstart) # <<>> THEN <<Pos(mstart)>>
          ELSE <<>>

\* the names bound inside a Lookahead with no_captures
RECURSIVE HiddenNames(_)
HiddenNames(p) ==
    IF p.kind = "Lookahead" /\ p.no_captures THEN CaptureNames(p.patterns[1])
    ELSE UNION {HiddenNames(p.patterns[k]) : k \in DOMAIN p.patterns}

\* C26: no emission of a pattern, a Lookahead with no_captures or a pattern with
\* one inside, is made with a name bound that only the inner pattern of such a
\* Lookahead binds.
C26_LookaheadHides ==
    driver = "match" =>
        \A k \in DOMAIN emitted : DOMAIN emitted[k].captures \cap HiddenNames(pattern) = {}

\* how often b is in the order
Times(ord, b) == Cardinality({k \in DOMAIN ord : ord[k] = b})

\* C27: an order as_basic_blocks returns holds the blocks of the graph and only
\* them, each once, and every block with a fallthrough Label stands right
\* before the block the Label names.
C27_OrderSound ==
    linear.called /\ linear.ok =>
        /\ \A k \in DOMAIN linear.result : linear.result[k] \in DOMAIN blocks
        /\ \A b \in DOMAIN blocks : Times(linear.result, b) = 1
        /\ \A b \in Falls(blocks) :
              \E k \in 1..(Len(linear.result) - 1) :
                 /\ linear.result[k] = b
                 /\ linear.result[k + 1] = blocks[b].next_target.target_id

\* C27 witness: an order of three blocks with two fallthroughs that is not the
\* order of the ids
C27_SplicedTwice ==
    /\ linear.called /\ linear.ok
    /\ Cardinality(Falls(blocks)) = 2
    /\ Len(linear.result) = 3
    /\ linear.result[1] > linear.result[2]

\* C28: an order as_basic_blocks returns starts with the entry block, and the
\* instruction list get_instructions builds from it starts with the entry
\* block's first instruction; when another block falls through to the entry
\* block, as_basic_blocks and get_instructions raise.
C28_EntryFirst ==
    /\ linear.called /\ linear.ok => linear.result[1] = entry
    /\ linear.called /\ (\E a \in Falls(blocks) :
                            a # entry /\ blocks[a].next_target.target_id = entry)
          => ~linear.ok
    /\ apc = "loop" =>
          /\ ins[1] = blocks[entry].instructions[1]
          /\ \A a \in Falls(blocks) : blocks[a].next_target.target_id # entry

\* C28 witness: the entry is not the block with the least id; get_instructions
\* has put its instruction first, and the block with the least id behind its run
C28_EntryNotLeast ==
    /\ apc = "loop" /\ linear.called /\ linear.ok
    /\ entry > 1
    /\ entry \in Falls(blocks)
    /\ ins[1] = Instruction("CALL_FUNCTION", ArgInt(entry))
    /\ Len(ins) = 3 /\ ins[3] = Instruction("CALL_FUNCTION", ArgInt(1))

\* the keys a generator and the generators it runs hold between enter() and
\* exit(), the outermost first: of a generator at a yield; before its first
\* next() and after its end it holds none
RECURSIVE OpenKeys(_)
OpenKeys(f) ==
    LET Stacked(k) == <<f.keys_stack[k]>> \o OpenKeys(f.iter_stack[k])
        Upto[k \in 0..Len(f.iter_stack)] == IF k = 0 THEN <<>> ELSE Upto[k - 1] \o Stacked(k)
    IN IF f.pc # "yielded" THEN <<>>
       ELSE IF f.pat.kind \in {"Alternation", "Lookahead"}
       THEN <<f.key>> \o OpenKeys(f.iter_stack[1])
       ELSE IF f.pat.kind = "StackEffectMatcher" THEN <<f.key>>
       ELSE IF f.pat.kind = "Any" THEN (IF f.pat.int_length THEN <<>> ELSE <<f.key>>)
       ELSE IF f.pat.kind \in {"Concatenation", "Repeat"} THEN Upto[Len(f.iter_stack)]
       ELSE <<>>

\* C29: while a caller pulls pattern.match, the keys of Captures are those the
\* running generators hold, the innermost last, so that the next exit() passes
\* the last key and its assert holds; and the list of keys is as long as the
\* chain of maps is above its first map.
C29_ExitsNested ==
    /\ Len(captures.maps) = Len(captures.keys) + 1
    /\ ~(gen.pc = "done" /\ returned.kind = "error") => captures.keys = OpenKeys(gen)

\* C29 witness: a Concatenation pulled to its end that had three scopes open at
\* an emission and has made more keys than it had open at any time
C29_ScopesReopened ==
    /\ driver = "match" /\ returned.kind = "exhausted"
    /\ gen.pat.kind = "Concatenation"
    /\ \E k \in DOMAIN gen.pat.patterns : ~gen.pat.patterns[k].int_length
                                           /\ gen.pat.patterns[k].kind = "Any"
    /\ Len(emitted) >= 3
    /\ captures.made >= 6

\* the patterns of which every emission, on every stream and from every start,
\* ends behind its start
ConsumingPatterns ==
    {p \in FindPatterns :
        \A s \in Streams : \A start \in 0..Len(s) :
           LET E == Emissions(p, s, start)
           IN \A k \in DOMAIN E : E[k].end.wrap = 0 /\ E[k].end.pos > start}

\* C30: with a pattern whose matches all consume a token, no pass of findall's
\* while loop, in findall or under find_pattern, leaves the loop with the start
\* it began with: the loop would then make the same pass again, and yield the
\* same match, without end.
C30_FindallTerminates ==
    [][(fun \in {"findall", "find_pattern"} /\ fpc = "loop" /\ pattern \in ConsumingPatterns)
          => ~(fpc' = "loop" /\ fidx' = fidx /\ scan' = scan)]_vars

=============================================================================
